---- MODULE Spec2Model ----
(***************************************************************************)
(* Model of the MIT IDE dashboard data pipeline (src/data_pipeline):       *)
(* the Sink (SheetsManager), the fetchers' save_to_google_sheets, identity *)
(* resolution, the fetchers' normalisation and the Coordinator             *)
(* (DataUpdater.update_all_data).                                          *)
(*                                                                         *)
(* Every remote call (Google Sheets, platform APIs) is one atomic request  *)
(* that either succeeds or raises; a request that raises was either not    *)
(* applied, or applied with its response lost ("..._lost").                *)
(***************************************************************************)
EXTENDS Integers, Sequences, FiniteSets, TLC

(***************************************************************************)
(* Bounds of the model.                                                    *)
(***************************************************************************)
MaxRows == 2

MaxLookup == 3

MaxVideos == 2

MaxPages == 2

(***************************************************************************)
(* State.                                                                  *)
(*   sheets  the shared spreadsheet (worksheet title -> worksheet)         *)
(*   call    the last Sink / save call: its arguments, the spreadsheet     *)
(*           before it, and how it ended                                   *)
(*   lookup   the records get_all_records returns for a lookup worksheet    *)
(*   platform the platform's answer to a validation request, per ID        *)
(*   resolved what the last identity resolution returned and requested     *)
(*   remote   what a platform holds and how it answers (one source's)      *)
(*   fetched  what the last fetch returned                                 *)
(***************************************************************************)
VARIABLES sheets, call, lookup, platform, resolved, remote, fetched, run, saves,
          env, boot, sched

sinkVars == <<sheets, call>>

resolveVars == <<lookup, platform, resolved>>

fetchVars == <<remote, fetched>>

runVars == <<run, saves>>

mainVars == <<env, boot, sched>>

vars == <<sheets, call, lookup, platform, resolved, remote, fetched, run, saves,
          env, boot, sched>>

(***************************************************************************)
(* Cells.  A pandas / worksheet cell is a string, a number or NaN.         *)
(***************************************************************************)
Str(s) == [k |-> "str", s |-> s, n |-> 0]

Num(n) == [k |-> "num", s |-> "", n |-> n]

NaN == [k |-> "nan", s |-> "", n |-> 0]

Blank == Str("")

Max2(a, b) == IF a >= b THEN a ELSE b

(***************************************************************************)
(* A DataFrame: column labels and a rectangular list of rows.              *)
(***************************************************************************)
DataFrame(columns, values) == [columns |-> columns, values |-> values]

EmptyFrame == DataFrame(<<>>, <<>>)

\* DataFrame.empty: no rows or no columns
IsEmptyFrame(df) == Len(df.values) = 0 \/ Len(df.columns) = 0

\* data.fillna(''): every NaN becomes the empty string
FillNa(df) ==
    DataFrame(df.columns,
              [i \in 1..Len(df.values) |->
                  [j \in 1..Len(df.values[i]) |->
                      IF df.values[i][j] = NaN THEN Blank ELSE df.values[i][j]]])

\* [data.columns.tolist()] + data.values.tolist(), after fillna('')
ToListOfLists(df) ==
    <<[j \in 1..Len(df.columns) |-> Str(df.columns[j])]>> \o FillNa(df).values

(***************************************************************************)
(* A worksheet's values: a list of rows of cells.  The service does not    *)
(* tell an empty-string cell from a cell never written, so a grid is kept  *)
(* without trailing blank cells and without trailing blank rows.           *)
(***************************************************************************)
RECURSIVE TrimRow(_)
TrimRow(row) ==
    IF Len(row) = 0 THEN row
    ELSE IF row[Len(row)] = Blank THEN TrimRow(SubSeq(row, 1, Len(row) - 1))
    ELSE row

RECURSIVE TrimRows(_)
TrimRows(g) ==
    IF Len(g) = 0 THEN g
    ELSE IF Len(g[Len(g)]) = 0 THEN TrimRows(SubSeq(g, 1, Len(g) - 1))
    ELSE g

TrimGrid(g) == TrimRows([i \in 1..Len(g) |-> TrimRow(g[i])])

CellAt(g, i, j) ==
    IF i <= Len(g) /\ j <= Len(g[i]) THEN g[i][j] ELSE Blank

\* A clear that removes nothing (the bug: update without clearing first).
WsClearKeeps(cells) == cells

\* worksheet.clear(): every value of the worksheet is removed
WsClear(cells) == <<>>

\* worksheet.update('A1', data): the cells of the range that starts at A1 and
\* has data's shape take data's values; every other cell keeps its value
WsUpdateA1(cells, data) ==
    TrimGrid([i \in 1..Max2(Len(cells), Len(data)) |->
        [j \in 1..Max2(IF i <= Len(cells) THEN Len(cells[i]) ELSE 0,
                       IF i <= Len(data) THEN Len(data[i]) ELSE 0) |->
            IF i <= Len(data) /\ j <= Len(data[i])
            THEN data[i][j] ELSE CellAt(cells, i, j)]])

(***************************************************************************)
(* The spreadsheet: worksheet title -> whether it exists, and its values.  *)
(***************************************************************************)
NoWorksheet == [exists |-> FALSE, cells |-> <<>>]

Worksheet(cells) == [exists |-> TRUE, cells |-> cells]

\* sheet.add_worksheet(title, 1000, 20): a new worksheet with no values
AddWorksheet(sh, title) == [sh EXCEPT ![title] = Worksheet(<<>>)]

\* What a call leaves: the spreadsheet, whether it raised to its caller, how
\* the update_sheet call inside it ended ("not_called", "returned", "raised")
\* and whether the CSV fallback file was written.
Result(sh, raised, sink) ==
    [sheets |-> sh, raised |-> raised, sink |-> sink, csv |-> FALSE]

Outcome(sh, raised) == Result(sh, raised, "not_called")

SinkRaised(sh) == Result(sh, TRUE, "raised")

SinkReturned(sh) == Result(sh, FALSE, "returned")

\* Where one update_sheet call can fail: a remote call raises, not applied
\* ("open", "worksheet", "add", "clear", "update") or applied with the
\* response lost ("add_lost", "clear_lost", "update_lost").
SinkFaults ==
    {"none", "open", "worksheet", "add", "add_lost", "clear", "clear_lost",
     "update", "update_lost"}

\* A fault on add_worksheet can only happen when the worksheet is missing.
SinkFaultApplies(sh, name, fault) ==
    fault \in {"add", "add_lost"} => ~sh[name].exists

\* update_sheet with worksheet.append_rows in place of clear and update
update_sheet_append(sh, name, data, fault) ==
    IF fault \in {"open", "worksheet"} THEN SinkRaised(sh)
    ELSE IF ~sh[name].exists /\ fault = "add" THEN SinkRaised(sh)
    ELSE
      LET sh1 == IF sh[name].exists THEN sh ELSE AddWorksheet(sh, name)
          sh3 == [sh1 EXCEPT ![name].cells = TrimGrid(@ \o ToListOfLists(data))]
      IN  IF fault = "add_lost" /\ ~sh[name].exists THEN SinkRaised(sh1)
          ELSE IF fault \in {"clear", "clear_lost", "update"} THEN SinkRaised(sh1)
          ELSE IF fault = "update_lost" THEN SinkRaised(sh3)
          ELSE SinkReturned(sh3)

\* update_sheet writing the rows one request at a time (the bug: a failure of
\* the write leaves the header row alone in the table).
update_sheet_by_row(sh, name, data, fault) ==
    IF fault \in {"open", "worksheet"} THEN SinkRaised(sh)
    ELSE IF ~sh[name].exists /\ fault = "add" THEN SinkRaised(sh)
    ELSE
      LET sh1 == IF sh[name].exists THEN sh ELSE AddWorksheet(sh, name)
          sh2 == [sh1 EXCEPT ![name].cells = WsClear(@)]
          sh3 == [sh2 EXCEPT ![name].cells = WsUpdateA1(@, ToListOfLists(data))]
          row == [sh2 EXCEPT ![name].cells =
                     WsUpdateA1(@, SubSeq(ToListOfLists(data), 1, 1))]
      IN  IF fault = "add_lost" /\ ~sh[name].exists THEN SinkRaised(sh1)
          ELSE IF fault = "clear" THEN SinkRaised(sh1)
          ELSE IF fault = "clear_lost" THEN SinkRaised(sh2)
          ELSE IF fault = "update" THEN SinkRaised(row)
          ELSE IF fault = "update_lost" THEN SinkRaised(sh3)
          ELSE SinkReturned(sh3)

\* SheetsManager.update_sheet(spreadsheet_id, worksheet_name, data), data a
\* DataFrame.  Any exception is logged and re-raised (no retry).
update_sheet(sh, name, data, fault) ==
    IF fault \in {"open", "worksheet"} THEN SinkRaised(sh)
    ELSE IF ~sh[name].exists /\ fault = "add" THEN SinkRaised(sh)
    ELSE
      LET sh1 == IF sh[name].exists THEN sh ELSE AddWorksheet(sh, name)
          sh2 == [sh1 EXCEPT ![name].cells = WsClear(@)]
          sh3 == [sh2 EXCEPT ![name].cells = WsUpdateA1(@, ToListOfLists(data))]
      IN  IF fault = "add_lost" /\ ~sh[name].exists THEN SinkRaised(sh1)
          ELSE IF fault = "clear" THEN SinkRaised(sh1)
          ELSE IF fault = "clear_lost" THEN SinkRaised(sh2)
          ELSE IF fault = "update" THEN SinkRaised(sh2)
          ELSE IF fault = "update_lost" THEN SinkRaised(sh3)
          ELSE SinkReturned(sh3)

(***************************************************************************)
(* The fetchers' save_to_google_sheets.  Each one (but Eventbrite's and    *)
(* the budget's) first opens the spreadsheet and gets or creates its own   *)
(* worksheet, then delegates to update_sheet.                              *)
(***************************************************************************)
\* Where the get-or-create that precedes update_sheet can fail.
PreFaults == {"pre_open", "pre_worksheet", "pre_add", "pre_add_lost"}

SaveFaults == SinkFaults \cup PreFaults

\* add_worksheet is only called for a missing worksheet, and update_sheet
\* finds the worksheet the get-or-create before it left.
SaveFaultApplies(sh, name, fault) ==
    /\ fault \in {"pre_add", "pre_add_lost"} => ~sh[name].exists
    /\ fault \notin {"add", "add_lost"}

\* sheet.worksheet(name), creating the worksheet when the lookup raises.
\* catchAll: the handler is `except Exception` (YouTube, LinkedIn, Medium), so
\* a transport error of the lookup also leads to add_worksheet, which the
\* service rejects for a title that exists; Scholar catches WorksheetNotFound
\* only.
GetOrCreate(sh, name, fault, catchAll) ==
    IF fault = "pre_open" THEN Outcome(sh, TRUE)
    ELSE IF fault = "pre_worksheet"
    THEN IF catchAll /\ ~sh[name].exists
         THEN Outcome(AddWorksheet(sh, name), FALSE)
         ELSE Outcome(sh, TRUE)
    ELSE IF sh[name].exists THEN Outcome(sh, FALSE)
    ELSE IF fault = "pre_add" THEN Outcome(sh, TRUE)
    ELSE IF fault = "pre_add_lost" THEN Outcome(AddWorksheet(sh, name), TRUE)
    ELSE Outcome(AddWorksheet(sh, name), FALSE)

SinkFaultOf(fault) == IF fault \in SinkFaults THEN fault ELSE "none"

\* A save without the test for an empty result
SaveStatsOfAnyFrame(sh, name, stats, fault, catchAll) ==
    LET pre == GetOrCreate(sh, name, fault, catchAll)
    IN  IF pre.raised THEN pre
        ELSE update_sheet(pre.sheets, name, stats, SinkFaultOf(fault))

\* The common body: if not stats.empty: try: get-or-create; update_sheet;
\* except Exception: log; raise.  An empty frame is logged and not saved.
SaveStats(sh, name, stats, fault, catchAll) ==
    IF IsEmptyFrame(stats) THEN Outcome(sh, FALSE)
    ELSE LET pre == GetOrCreate(sh, name, fault, catchAll)
         IN  IF pre.raised THEN pre
             ELSE update_sheet(pre.sheets, name, stats, SinkFaultOf(fault))

YouTubeSave(sh, stats, fault) ==
    SaveStats(sh, "YouTube Yearly Stats", stats, fault, TRUE)

LinkedInSave(sh, stats, fault) ==
    SaveStats(sh, "LinkedIn Yearly Stats", stats, fault, TRUE)

ScholarSave(sh, stats, fault) ==
    SaveStats(sh, "Scholar Yearly Stats", stats, fault, FALSE)

\* MediumFetcher.save_to_google_sheets: the inner handler re-raises, the outer
\* `except Exception` logs, writes medium_stats.csv and returns normally.
MediumSave(sh, stats, fault) ==
    LET got == SaveStats(sh, "Medium Stats", stats, fault, TRUE)
    IN  [got EXCEPT !.raised = FALSE, !.csv = got.raised]

\* EventbriteFetcher.save_to_google_sheets: return update_sheet(...)
EventbriteSave(sh, df, fault) ==
    update_sheet(sh, "Eventbrite Data", df, SinkFaultOf(fault))

\* BudgetProcessor.save_to_google_sheets(spreadsheet_id), on self.budget_data
\* (None is modelled by the empty frame); logs and re-raises.
BudgetSave(sh, budget_data, fault) ==
    IF IsEmptyFrame(budget_data) THEN Outcome(sh, FALSE)
    ELSE update_sheet(sh, "Processed Budget", budget_data, SinkFaultOf(fault))

(***************************************************************************)
(* Identity resolution: _get_channel_ids, _get_company_ids and             *)
(* _get_researcher_ids read a lookup worksheet with get_all_records, which *)
(* returns a string cell as a string and a numeric cell as a number.       *)
(***************************************************************************)
PlatformIds == {"id1", "id2"}

ScholarUrlWithUser == "https://scholar.google.com/citations?user=id1&hl=en"

ScholarUrlNoUser == "https://scholar.google.com/scholar?q=A"

LookupCells ==
    {Blank, Str("id1"), Str(" id1 "), Str("id2"), Num(7),
     Str(ScholarUrlWithUser), Str(ScholarUrlNoUser)}

DisplayNames == <<"A", "B", "C", "D", "E", "F">>

\* The records of a lookup worksheet: row i has display name DisplayNames[i].
LookupRecords(cells) ==
    [i \in 1..Len(cells) |->
        [Name |-> DisplayNames[i], Segment |-> "x", ID |-> cells[i]]]

\* Sequences over S of length at most n
RECURSIVE SeqUpTo(_, _)
SeqUpTo(S, n) ==
    IF n = 0 THEN {<<>>}
    ELSE LET shorter == SeqUpTo(S, n - 1)
         IN  shorter \cup
             {Append(q, x) : q \in {r \in shorter : Len(r) = n - 1}, x \in S}

\* str.strip() on the strings of the model
Strip(s) == IF s = " id1 " THEN "id1" ELSE s

\* Python truth value of a cell: '' and 0 are false
Truthy(cell) == IF cell.k = "num" THEN cell.n # 0 ELSE cell.s # ""

\* 'user=' in url
HasUserParam(url) == url = ScholarUrlWithUser

\* url.split('user=')[1].split('&')[0]
UserParam(url) == IF url = ScholarUrlWithUser THEN "id1" ELSE ""

\* The platform's answer to the validation request for `id`: "ok" (HTTP
\* success and a resource), "notfound" (no items / non-200) or "error" (the
\* request raised).  An ID the platform does not know is not found.
Respond(plat, id) == IF id \in DOMAIN plat THEN plat[id] ELSE "notfound"

\* validate_channel_id / validate_company_id: True only on a positive
\* lookup; an exception is logged and gives False.
validate_id(plat, id) == Respond(plat, id) = "ok"

IdentityRecord(record, id) ==
    [name |-> record.Name, segment |-> record.Segment, id |-> id]

ResolveState(ids, requests, aborted) ==
    [ids |-> ids, requests |-> requests, aborted |-> aborted]

\* The loop of _get_channel_ids / _get_company_ids from row i on.  A numeric
\* ID cell makes record[...].strip() raise, which ends the loop.
RECURSIVE ValidateRows(_, _, _, _)
ValidateRows(records, plat, i, st) ==
    IF i > Len(records) THEN st
    ELSE LET cell == records[i].ID
         IN  IF ~Truthy(cell) THEN ValidateRows(records, plat, i + 1, st)
             ELSE IF cell.k # "str" THEN [st EXCEPT !.aborted = TRUE]
             ELSE IF Strip(cell.s) = "" THEN ValidateRows(records, plat, i + 1, st)
             ELSE LET id == Strip(cell.s)
                      asked == [st EXCEPT !.requests = Append(@, id)]
                  IN  IF validate_id(plat, id)
                      THEN ValidateRows(records, plat, i + 1,
                               [asked EXCEPT !.ids =
                                   Append(@, IdentityRecord(records[i], id))])
                      ELSE ValidateRows(records, plat, i + 1, asked)

\* The loop of _get_researcher_ids from row i on: no validation request.
RECURSIVE ScholarRows(_, _, _)
ScholarRows(records, i, st) ==
    IF i > Len(records) THEN st
    ELSE LET cell == records[i].ID
         IN  IF ~Truthy(cell) THEN ScholarRows(records, i + 1, st)
             ELSE IF cell.k # "str" THEN [st EXCEPT !.aborted = TRUE]
             ELSE IF Strip(cell.s) = "" THEN ScholarRows(records, i + 1, st)
             ELSE IF HasUserParam(cell.s)
             THEN ScholarRows(records, i + 1,
                      [st EXCEPT !.ids =
                          Append(@, IdentityRecord(records[i], UserParam(cell.s)))])
             ELSE ScholarRows(records, i + 1, st)

\* Reading the lookup worksheet can raise at open_by_key, worksheet or
\* get_all_records.
ReadFaults == {"none", "open", "worksheet", "records"}

\* try: ...; return ids / except Exception: log; return []
Resolved(who, st, fault) ==
    [who |-> who,
     ids |-> IF fault # "none" \/ st.aborted THEN <<>> ELSE st.ids,
     requests |-> IF fault # "none" THEN <<>> ELSE st.requests,
     read |-> fault = "none",
     aborted |-> fault = "none" /\ st.aborted,
     raised |-> FALSE]

\* YouTubeFetcher._get_channel_ids
get_channel_ids(records, plat, fault) ==
    Resolved("YouTube",
             ValidateRows(records, plat, 1, ResolveState(<<>>, <<>>, FALSE)), fault)

\* LinkedInFetcher._get_company_ids
get_company_ids(records, plat, fault) ==
    Resolved("LinkedIn",
             ValidateRows(records, plat, 1, ResolveState(<<>>, <<>>, FALSE)), fault)

\* ScholarFetcher._get_researcher_ids
get_researcher_ids(records, fault) ==
    Resolved("Scholar", ScholarRows(records, 1, ResolveState(<<>>, <<>>, FALSE)), fault)

NotResolved ==
    [who |-> "none", ids |-> <<>>, requests |-> <<>>, read |-> FALSE,
     aborted |-> FALSE, raised |-> FALSE]

NoPlatform == [id \in PlatformIds |-> "notfound"]

(***************************************************************************)
(* Fetch and normalisation.  A fetch returns a frame or raises.            *)
(***************************************************************************)
Fetched(src, frame) == [src |-> src, frame |-> frame, raised |-> FALSE]

FetchRaised(src) == [src |-> src, frame |-> EmptyFrame, raised |-> TRUE]

NotFetched == Fetched("none", EmptyFrame)

NoRemote == [src |-> "none"]

\* What one update_all_data call did: the steps it began, those that raised,
\* the output tables a save rewrote, and whether the call itself raised.
Ran(attempted, failed, written, raised) ==
    [ran |-> TRUE, attempted |-> attempted, failed |-> failed,
     written |-> written, raised |-> raised]

\* The environment of the process: the variables that are not set, and
\* whether the file GOOGLE_CREDENTIALS_FILE names exists
NoEnv == [missing |-> {}, credFile |-> TRUE]

\* What DataUpdater() did: whether it raised, the names its error lists, the
\* fetchers constructed before it, and whether a remote request was issued
Booted(raised, listed, constructed, requests) ==
    [done |-> TRUE, raised |-> raised, listed |-> listed,
     constructed |-> constructed, requests |-> requests]

NotBooted ==
    [done |-> FALSE, raised |-> FALSE, listed |-> {}, constructed |-> {},
     requests |-> FALSE]

\* The main process: where it is, the date of the next 02:00 check, the number
\* of startup runs, whether schedule_updates was entered, whether the last
\* check ran update_all_data and on which date that check was
NoSched ==
    [pc |-> "none", month |-> 1, day |-> 1, startup |-> 0, entered |-> FALSE,
     updated |-> FALSE, checkedMonth |-> 0, checkedDay |-> 0]

NoRun == [ran |-> FALSE, attempted |-> {}, failed |-> {}, written |-> {}, raised |-> FALSE]

\* range(first, end) as a list
YearRange(first, end) == [i \in 1..(end - first) |-> first + i - 1]

RECURSIVE SumOf(_, _)
SumOf(q, field) ==
    IF Len(q) = 0 THEN 0 ELSE q[1][field] + SumOf(Tail(q), field)

\* [v for v in items if v['year'] == year]
OfYear(items, year) == SelectSeq(items, LAMBDA v : v.year = year)

\* range(2020, 2026) of get_video_stats and get_company_stats
StatsFirstYear == 2020

StatsEndYear == 2026

\* The yearly rows only for the years that have a video (the bug: sparse
\* buckets instead of the dense range).
YouTubeYearlySparse(videos) ==
    LET years == SelectSeq(YearRange(StatsFirstYear, StatsEndYear),
                           LAMBDA y : Len(OfYear(videos, y)) > 0)
    IN  [i \in 1..Len(years) |->
            <<Num(years[i]), Num(Len(OfYear(videos, years[i]))),
              Num(SumOf(OfYear(videos, years[i]), "views")), NaN>>]

\* get_video_stats: for year in range(2020, 2026): yearly_stats.append(...)
\* (a row without 'Subscribers' gets NaN in that column of the frame)
YouTubeYearly(videos) ==
    LET years == YearRange(StatsFirstYear, StatsEndYear)
    IN  [i \in 1..Len(years) |->
            <<Num(years[i]), Num(Len(OfYear(videos, years[i]))),
              Num(SumOf(OfYear(videos, years[i]), "views")), NaN>>]

\* The pages the platform serves: the items in chunks of `size`; a page
\* carries a nextPageToken while a further page exists.
RECURSIVE PagesOf(_, _)
PagesOf(items, size) ==
    IF Len(items) <= size THEN <<items>>
    ELSE <<SubSeq(items, 1, size)>> \o PagesOf(SubSeq(items, size + 1, Len(items)), size)

ScanState(videos, count, raised) ==
    [videos |-> videos, fetched |-> count, raised |-> raised]

\* for item in response['items']: videos().list(id=video_id); a video whose
\* detail lookup has no items is passed over; a lookup that raises (or an item
\* without id/snippet) ends the fetch; a missing viewCount counts 0.
RECURSIVE ScanItems(_, _)
ScanItems(items, st) ==
    IF Len(items) = 0 \/ st.raised THEN st
    ELSE LET item == items[1]
         IN  IF item.detail = "error" THEN [st EXCEPT !.raised = TRUE]
             ELSE IF item.detail = "gone" THEN ScanItems(Tail(items), st)
             ELSE ScanItems(Tail(items),
                      [st EXCEPT
                          !.videos = Append(@,
                              [year |-> item.year,
                               views |-> IF item.detail = "stats"
                                         THEN item.views ELSE 0]),
                          !.fetched = @ + 1])

\* while True: search().list(pageToken=...); ...; if not next_page_token or
\* total_videos_fetched >= channel_stats['total_videos']: break
RECURSIVE ScanPages(_, _, _, _)
ScanPages(pages, k, total_videos, st) ==
    LET got == ScanItems(pages[k], st)
    IN  IF got.raised THEN got
        ELSE IF k >= Len(pages) \/ got.fetched >= total_videos THEN got
        ELSE ScanPages(pages, k + 1, total_videos, got)

\* The Totals row with the sums of the fetched videos in place of the
\* channel's counters
YouTubeTotalsSummed(yt, videos) ==
    <<Str("Totals"), Num(Len(videos)), Num(SumOf(videos, "views")), Num(yt.subscribers)>>

\* yearly_stats.append({'Year': 'Totals', ...}): the channel's videoCount,
\* viewCount and subscriberCount of the channels().list call
YouTubeTotals(yt, videos) ==
    <<Str("Totals"), Num(yt.total_videos), Num(yt.total_views), Num(yt.subscribers)>>

\* YouTubeFetcher.get_video_stats(channel_id)
get_video_stats(yt) ==
    IF yt.channel # "ok" THEN FetchRaised("YouTube")
    ELSE LET got == ScanPages(PagesOf(yt.items, yt.pageSize), 1, yt.total_videos,
                              ScanState(<<>>, 0, FALSE))
         IN  IF got.raised THEN FetchRaised("YouTube")
             ELSE Fetched("YouTube",
                      DataFrame(<<"Year", "Videos", "Views", "Subscribers">>,
                          Append(YouTubeYearly(got.videos), YouTubeTotals(yt, got.videos))))

\* follower_stats.get('followerCount', 0)
FollowerCount(li) == IF li.hasCount THEN li.followerCount ELSE 0

\* get_company_stats with the totals row appended once per year
get_company_stats_totals_per_year(li) ==
    IF li.org # "200" \/ li.stats # "200" THEN FetchRaised("LinkedIn")
    ELSE LET years == YearRange(StatsFirstYear, StatsEndYear)
             row(y) == <<Num(y), Num(FollowerCount(li)), Num(0), Num(0)>>
             totals == <<Str("Totals"), Num(FollowerCount(li)), Num(0), Num(0)>>
         IN  Fetched("LinkedIn",
                 DataFrame(<<"Year", "Followers", "Posts", "Engagement">>,
                     [i \in 1..(2 * Len(years)) |->
                         IF i % 2 = 1 THEN row(years[(i + 1) \div 2]) ELSE totals]))

\* LinkedInFetcher.get_company_stats(company_id)
get_company_stats(li) ==
    IF li.org # "200" \/ li.stats # "200" THEN FetchRaised("LinkedIn")
    ELSE LET years == YearRange(StatsFirstYear, StatsEndYear)
         IN  Fetched("LinkedIn",
                 DataFrame(<<"Year", "Followers", "Posts", "Engagement">>,
                     Append([i \in 1..Len(years) |->
                                <<Num(years[i]), Num(FollowerCount(li)), Num(0), Num(0)>>],
                            <<Str("Totals"), Num(FollowerCount(li)), Num(0), Num(0)>>)))

\* pd.to_datetime(df['date']).dt.strftime('%Y-%m-%d %H:%M:%S') on the
\* event's start.utc
StrfTime(utc) ==
    CASE utc = "2021-03-01T10:00:00Z" -> "2021-03-01 10:00:00"
      [] utc = "2023-06-05T18:30:00Z" -> "2023-06-05 18:30:00"
      [] OTHER -> "NaT"

\* event.get('venue'); venue.get('name', '') if venue else ''
VenueName(event) == IF event.venue = "none" THEN "" ELSE event.venue

\* ticket_classes[0].get('quantity_sold', 0) if ticket_classes else 0
QuantitySold(event) == IF event.tickets THEN event.sold ELSE 0

\* EventbriteFetcher._process_events(events): one row per event.  An event
\* without name/start/status raises KeyError, a start that is no date makes
\* pd.to_datetime raise, and with no events df['date'] raises KeyError; none
\* of them is caught.
process_events(events) ==
    IF \E i \in 1..Len(events) : events[i].kind = "nofield" THEN FetchRaised("Eventbrite")
    ELSE IF Len(events) = 0 THEN FetchRaised("Eventbrite")
    ELSE IF \E i \in 1..Len(events) : events[i].kind = "baddate"
    THEN FetchRaised("Eventbrite")
    ELSE Fetched("Eventbrite",
             DataFrame(<<"name", "date", "attendees", "venue", "status">>,
                 [i \in 1..Len(events) |->
                     <<Str(events[i].name), Str(StrfTime(events[i].utc)),
                       Num(QuantitySold(events[i])), Str(VenueName(events[i])),
                       Str("completed")>>]))

\* while True: GET .../events/?page=k; a response that is not 200 raises;
\* events.extend(data['events']); stop when has_more_items is false.
RECURSIVE CollectEvents(_, _, _, _)
CollectEvents(pages, k, badPage, events) ==
    IF k = badPage THEN [raised |-> TRUE, events |-> events]
    ELSE IF k >= Len(pages) THEN [raised |-> FALSE, events |-> events \o pages[k]]
    ELSE CollectEvents(pages, k + 1, badPage, events \o pages[k])

\* EventbriteFetcher.get_events(start_date)
get_events(eb) ==
    LET got == CollectEvents(PagesOf(eb.events, eb.pageSize), 1, eb.badPage, <<>>)
    IN  IF got.raised THEN FetchRaised("Eventbrite") ELSE process_events(got.events)

\* current_year = 2020 of load_from_google_sheets
BudgetFirstYear == 2020

\* range(2019, 2026) of MediumStatsClient.get_stats
MediumFirstYear == 2019

MediumEndYear == 2026

\* The articles whose details were fetched: a lookup that raises or returns
\* nothing is logged and passed over; an article without a parsable
\* published_at keeps published_at None (year 0 here).
DetailedArticles(articles) ==
    LET kept == SelectSeq(articles, LAMBDA a : a.detail \notin {"error", "empty"})
    IN  [i \in 1..Len(kept) |->
            [year |-> IF kept[i].detail = "ok" THEN kept[i].year ELSE 0,
             claps |-> kept[i].claps, voters |-> kept[i].voters,
             responses |-> kept[i].responses]]

\* MediumStatsClient.get_stats(entity_name): the stats frame, or None (the
\* empty frame here) when the user, the listing or every article is missing.
get_stats(md) ==
    IF md.user # "ok" \/ md.listing # "ok" THEN EmptyFrame
    ELSE LET follower_count == IF md.info = "ok" THEN md.followers ELSE 0
             df == DetailedArticles(md.articles)
             years == YearRange(MediumFirstYear, MediumEndYear)
         IN  IF Len(md.articles) = 0 \/ Len(df) = 0 THEN EmptyFrame
             ELSE DataFrame(
                 <<"year", "total_articles", "total_claps", "total_voters",
                   "total_responses", "followers">>,
                 Append([i \in 1..Len(years) |->
                            <<Num(years[i]), Num(Len(OfYear(df, years[i]))),
                              Num(SumOf(OfYear(df, years[i]), "claps")),
                              Num(SumOf(OfYear(df, years[i]), "voters")),
                              Num(SumOf(OfYear(df, years[i]), "responses")), NaN>>],
                        <<Str("Total"), Num(Len(df)), Num(SumOf(df, "claps")),
                          Num(SumOf(df, "voters")), Num(SumOf(df, "responses")),
                          Num(follower_count)>>))

\* MediumFetcher.get_article_stats(): never raises; no stats -> pd.DataFrame()
get_article_stats(md) == Fetched("Medium", get_stats(md))

\* ScholarFetcher._parse_publications: the entries of one page with a year
\* from 2020 on; an entry that fails to parse is logged and passed over.
ParsePublications(entries, name) ==
    LET kept == SelectSeq(entries, LAMBDA en : en.ok /\ en.year >= 2020)
    IN  [i \in 1..Len(kept) |->
            [year |-> kept[i].year, citations |-> kept[i].citations,
             researcher_name |-> name]]

\* The page the platform serves for cstart = 100 * (k - 1): past the last
\* page it is a page without entries.
ScholarPage(pages, k) ==
    IF k <= Len(pages) THEN pages[k] ELSE [status |-> "200", entries |-> <<>>]

\* while has_more: one researcher's pages from page k on.  A page that is not
\* 200, or yields no publication, ends the loop; a request that raises ends
\* this researcher (what was collected stays).
RECURSIVE ScholarPubs(_, _, _)
ScholarPubs(r, k, acc) ==
    LET page == ScholarPage(r.pages, k)
        pubs == ParsePublications(page.entries, r.name)
    IN  IF page.status # "200" \/ Len(pubs) = 0 THEN acc
        ELSE ScholarPubs(r, k + 1, acc \o pubs)

RECURSIVE AllPublications(_)
AllPublications(researchers) ==
    IF Len(researchers) = 0 THEN <<>>
    ELSE ScholarPubs(researchers[1], 1, <<>>) \o AllPublications(Tail(researchers))

\* sorted(df['year'].unique())
SortedYears(pubs) ==
    SelectSeq(YearRange(StatsFirstYear, StatsEndYear + 1),
              LAMBDA y : Len(OfYear(pubs, y)) > 0)

OfResearcher(pubs, name) == SelectSeq(pubs, LAMBDA pb : pb.researcher_name = name)

\* publications_<year>, citations_<year> for each year
RECURSIVE YearColumns(_)
YearColumns(years) ==
    IF Len(years) = 0 THEN <<>>
    ELSE <<"publications_" \o ToString(years[1]), "citations_" \o ToString(years[1])>>
         \o YearColumns(Tail(years))

RECURSIVE YearCells(_, _)
YearCells(pubs, years) ==
    IF Len(years) = 0 THEN <<>>
    ELSE <<Num(Len(OfYear(pubs, years[1]))), Num(SumOf(OfYear(pubs, years[1]), "citations"))>>
         \o YearCells(pubs, Tail(years))

\* ScholarFetcher.get_publications(): one row per researcher that has a
\* publication (groupby sorts by name), with a pair of columns per year that
\* occurs; h_index is set when the researcher's first page was served.
get_publications(researchers) ==
    LET pubs == AllPublications(researchers)
        years == SortedYears(pubs)
        names == SelectSeq(DisplayNames,
                     LAMBDA nm : Len(OfResearcher(pubs, nm)) > 0)
    IN  IF Len(pubs) = 0 THEN Fetched("Scholar", EmptyFrame)
        ELSE Fetched("Scholar",
                 DataFrame(
                     <<"researcher_name", "researcher_segment", "total_citations",
                       "total_publications">> \o YearColumns(years) \o <<"h_index">>,
                     [i \in 1..Len(names) |->
                         <<Str(names[i]), Str("x"),
                           Num(SumOf(OfResearcher(pubs, names[i]), "citations")),
                           Num(Len(OfResearcher(pubs, names[i])))>>
                         \o YearCells(OfResearcher(pubs, names[i]), years)
                         \o <<Num(4)>>]))

\* What the video platform may hold.
VideoItems ==
    {[year |-> 2021, detail |-> "stats", views |-> 200],
     [year |-> 2023, detail |-> "noviews", views |-> 0],
     [year |-> 2019, detail |-> "stats", views |-> 100],
     [year |-> 2021, detail |-> "gone", views |-> 0],
     [year |-> 2021, detail |-> "error", views |-> 0]}

YouTubeRemotes ==
    {[src |-> "YouTube", channel |-> ch, subscribers |-> 9, total_views |-> 700,
      total_videos |-> n, items |-> items, pageSize |-> size] :
        ch \in {"ok", "none", "error"}, n \in {1, 4},
        items \in SeqUpTo(VideoItems, MaxVideos), size \in {1, 2}}

LinkedInRemotes ==
    {[src |-> "LinkedIn", org |-> o, stats |-> f, hasCount |-> h, followerCount |-> c] :
        o \in {"200", "404", "error"}, f \in {"200", "404", "error"},
        h \in BOOLEAN, c \in {0, 5}}

\* What the article platform may hold.
MediumArticles ==
    {[detail |-> "ok", year |-> 2021, claps |-> 3, voters |-> 2, responses |-> 1],
     [detail |-> "ok", year |-> 2018, claps |-> 5, voters |-> 1, responses |-> 0],
     [detail |-> "baddate", year |-> 2021, claps |-> 1, voters |-> 1, responses |-> 0],
     [detail |-> "error", year |-> 2021, claps |-> 0, voters |-> 0, responses |-> 0]}

MediumRemotes ==
    {[src |-> "Medium", user |-> u, info |-> inf, followers |-> 12, listing |-> l,
      articles |-> arts] :
        u \in {"ok", "none"}, inf \in {"ok", "error"}, l \in {"ok", "error"},
        arts \in SeqUpTo(MediumArticles, MaxVideos)}

\* What the event platform may hold.
EventItems ==
    {[kind |-> "ok", name |-> "Talk", utc |-> "2021-03-01T10:00:00Z", venue |-> "Hall",
      tickets |-> TRUE, sold |-> 30],
     [kind |-> "ok", name |-> "Talk", utc |-> "2023-06-05T18:30:00Z", venue |-> "none",
      tickets |-> FALSE, sold |-> 0],
     [kind |-> "nofield", name |-> "", utc |-> "2021-03-01T10:00:00Z", venue |-> "none",
      tickets |-> FALSE, sold |-> 0],
     [kind |-> "baddate", name |-> "Fair", utc |-> "soon", venue |-> "Hall",
      tickets |-> TRUE, sold |-> 5]}

EventbriteRemotes ==
    {[src |-> "Eventbrite", events |-> evs, pageSize |-> size, badPage |-> bad] :
        evs \in SeqUpTo(EventItems, MaxVideos), size \in {1, 2}, bad \in 0..2}

\* What the citation index may serve.
ScholarPageSet ==
    {[status |-> "200",
      entries |-> <<[ok |-> TRUE, year |-> 2020, citations |-> 3],
                    [ok |-> TRUE, year |-> 2022, citations |-> 1]>>],
     [status |-> "200", entries |-> <<[ok |-> TRUE, year |-> 2018, citations |-> 7]>>],
     [status |-> "200",
      entries |-> <<[ok |-> FALSE, year |-> 0, citations |-> 0],
                    [ok |-> TRUE, year |-> 2025, citations |-> 0]>>],
     [status |-> "429", entries |-> <<>>]}

ScholarRemotes ==
    {[src |-> "Scholar", researchers |-> rs] :
        rs \in {<<>>} \cup
               {<<[name |-> "B", pages |-> pb]>> : pb \in SeqUpTo(ScholarPageSet, MaxPages)}
               \cup
               {<<[name |-> "B", pages |-> pb], [name |-> "A", pages |-> pa]>> :
                   pb \in SeqUpTo(ScholarPageSet, MaxPages),
                   pa \in SeqUpTo(ScholarPageSet, MaxPages)}}

(***************************************************************************)
(* The Sink and the saves as a state machine: calls arrive one after the   *)
(* other (the pipeline is single-threaded), each with any frame and any    *)
(* fault.                                                                  *)
(***************************************************************************)
OutputTables ==
    {"YouTube Yearly Stats", "LinkedIn Yearly Stats", "Scholar Yearly Stats",
     "Medium Stats", "Eventbrite Data", "Processed Budget"}

LookupTables == {"YouTube", "LinkedIn", "Scholars", "Budget Data"}

\* The worksheets only create_sheets names
CreatedTables ==
    {"Scholar Author Stats", "LinkedIn Organization Stats", "LinkedIn Post Metrics",
     "Budget Summary", "Budget Trends"}

TableNames == OutputTables \cup LookupTables \cup CreatedTables

NoSheets == [n \in TableNames |-> NoWorksheet]

\* The frames handed to the Sink: k yearly rows (k <= MaxRows) in two shapes,
\* the second closed by a Totals row that alone fills the last column (as in
\* the YouTube frame); and the frame with no columns.
YearRows(k, rest) == [i \in 1..k |-> <<Num(2019 + i)>> \o rest]

Frames ==
    {DataFrame(<<"Year", "Followers">>, YearRows(k, <<Num(5)>>)) : k \in 0..MaxRows}
    \cup
    {DataFrame(<<"Year", "Videos", "Subscribers">>,
               Append(YearRows(k, <<Num(1), NaN>>), <<Str("Totals"), Num(1), Num(9)>>)) :
        k \in 0..MaxRows}
    \cup {EmptyFrame}

NoCall ==
    [op |-> "none", name |-> "Eventbrite Data", before |-> NoSheets,
     data |-> EmptyFrame, fault |-> "none", raised |-> FALSE,
     sink |-> "not_called", csv |-> FALSE]

Called(op, name, data, fault, got) ==
    [op |-> op, name |-> name, before |-> sheets, data |-> data, fault |-> fault,
     raised |-> got.raised, sink |-> got.sink, csv |-> got.csv]

\* Each behaviour exercises one output table: a call is taken only while the
\* other tables are untouched.
OthersUntouched(name) == \A n \in TableNames \ {name} : sheets[n] = NoWorksheet

InitSink ==
    /\ sheets = NoSheets
    /\ call = NoCall
    /\ lookup = <<>>
    /\ platform = NoPlatform
    /\ resolved = NotResolved
    /\ remote = NoRemote
    /\ fetched = NotFetched
    /\ run = NoRun
    /\ saves = <<>>
    /\ env = NoEnv
    /\ boot = NotBooted
    /\ sched = NoSched

\* A direct SheetsManager.update_sheet call
UpdateSheet ==
    \E name \in OutputTables, data \in Frames, fault \in SinkFaults :
        /\ OthersUntouched(name)
        /\ SinkFaultApplies(sheets, name, fault)
        /\ LET got == update_sheet(sheets, name, data, fault)
           IN  /\ sheets' = got.sheets
               /\ call' = Called("update_sheet", name, data, fault, got)
               /\ UNCHANGED <<resolveVars, fetchVars, runVars, mainVars>>

SaveYouTube ==
    \E data \in Frames, fault \in SaveFaults :
        /\ OthersUntouched("YouTube Yearly Stats")
        /\ SaveFaultApplies(sheets, "YouTube Yearly Stats", fault)
        /\ LET got == YouTubeSave(sheets, data, fault)
           IN  /\ sheets' = got.sheets
               /\ call' = Called("save", "YouTube Yearly Stats", data, fault, got)
               /\ UNCHANGED <<resolveVars, fetchVars, runVars, mainVars>>

SaveLinkedIn ==
    \E data \in Frames, fault \in SaveFaults :
        /\ OthersUntouched("LinkedIn Yearly Stats")
        /\ SaveFaultApplies(sheets, "LinkedIn Yearly Stats", fault)
        /\ LET got == LinkedInSave(sheets, data, fault)
           IN  /\ sheets' = got.sheets
               /\ call' = Called("save", "LinkedIn Yearly Stats", data, fault, got)
               /\ UNCHANGED <<resolveVars, fetchVars, runVars, mainVars>>

SaveScholar ==
    \E data \in Frames, fault \in SaveFaults :
        /\ OthersUntouched("Scholar Yearly Stats")
        /\ SaveFaultApplies(sheets, "Scholar Yearly Stats", fault)
        /\ LET got == ScholarSave(sheets, data, fault)
           IN  /\ sheets' = got.sheets
               /\ call' = Called("save", "Scholar Yearly Stats", data, fault, got)
               /\ UNCHANGED <<resolveVars, fetchVars, runVars, mainVars>>

SaveMedium ==
    \E data \in Frames, fault \in SaveFaults :
        /\ OthersUntouched("Medium Stats")
        /\ SaveFaultApplies(sheets, "Medium Stats", fault)
        /\ LET got == MediumSave(sheets, data, fault)
           IN  /\ sheets' = got.sheets
               /\ call' = Called("save", "Medium Stats", data, fault, got)
               /\ UNCHANGED <<resolveVars, fetchVars, runVars, mainVars>>

SaveEventbrite ==
    \E data \in Frames, fault \in SinkFaults :
        /\ OthersUntouched("Eventbrite Data")
        /\ SinkFaultApplies(sheets, "Eventbrite Data", fault)
        /\ LET got == EventbriteSave(sheets, data, fault)
           IN  /\ sheets' = got.sheets
               /\ call' = Called("save", "Eventbrite Data", data, fault, got)
               /\ UNCHANGED <<resolveVars, fetchVars, runVars, mainVars>>

SaveBudget ==
    \E data \in Frames, fault \in SinkFaults :
        /\ OthersUntouched("Processed Budget")
        /\ SinkFaultApplies(sheets, "Processed Budget", fault)
        /\ LET got == BudgetSave(sheets, data, fault)
           IN  /\ sheets' = got.sheets
               /\ call' = Called("save", "Processed Budget", data, fault, got)
               /\ UNCHANGED <<resolveVars, fetchVars, runVars, mainVars>>

NextSink ==
    \/ UpdateSheet
    \/ SaveYouTube
    \/ SaveLinkedIn
    \/ SaveScholar
    \/ SaveMedium
    \/ SaveEventbrite
    \/ SaveBudget

Spec == InitSink /\ [][NextSink]_vars

(***************************************************************************)
(* Claims about the Sink and the saves (checked under Spec).               *)
(***************************************************************************)
Written(data) == TrimGrid(ToListOfLists(data))

\* Some cell of the grid `old` lies outside the range that `data` covers.
Outlasts(old, data) ==
    \E i \in 1..Len(old) :
        \/ i > Len(ToListOfLists(data))
        \/ Len(old[i]) > Len(ToListOfLists(data)[i])

\* C3: after update_sheet returns, the named table holds exactly the header
\* row followed by the data rows from the origin cell, nothing of the prior
\* content remains, and no other table has changed.
C3_WholeTableReplace ==
    call.sink = "returned" =>
        /\ sheets[call.name] = Worksheet(Written(call.data))
        /\ \A n \in TableNames \ {call.name} : sheets[n] = call.before[n]

\* C3 witness: update_sheet returned on a table whose prior content reached
\* beyond the new data's range.
C3_Witness ==
    /\ call.op = "update_sheet"
    /\ call.sink = "returned"
    /\ call.before[call.name].exists
    /\ Outlasts(call.before[call.name].cells, call.data)
    /\ Len(call.data.values) > 0

\* C4: after update_sheet has raised, at whichever step, the named table
\* holds its complete prior content, nothing, or the complete new content.
C4_NeverPartiallyCommitted ==
    call.sink = "raised" =>
        sheets[call.name].cells \in
            {call.before[call.name].cells, <<>>, Written(call.data)}

\* C4 witness: the write request itself failed after the clear, on a table
\* that held content, with more than a header to write.
C4_Witness ==
    /\ call.sink = "raised"
    /\ call.fault = "update"
    /\ Len(call.before[call.name].cells) > 0
    /\ Len(call.data.values) > 0
    /\ sheets[call.name].cells = <<>>

\* C5: a failure of update_sheet inside a source's save reaches the caller of
\* that save as a raised exception.
C5_SaveRaisesSinkFailure ==
    (call.op = "save" /\ call.sink = "raised") => call.raised

(***************************************************************************)
(* Identity resolution as a state machine: a lookup table and a platform   *)
(* are given; each fetcher construction resolves afresh.                   *)
(***************************************************************************)
InitResolve ==
    /\ lookup \in {LookupRecords(cells) : cells \in SeqUpTo(LookupCells, MaxLookup)}
    /\ platform \in [PlatformIds -> {"ok", "notfound", "error"}]
    /\ resolved = NotResolved
    /\ sheets = NoSheets
    /\ call = NoCall
    /\ remote = NoRemote
    /\ fetched = NotFetched
    /\ run = NoRun
    /\ saves = <<>>
    /\ env = NoEnv
    /\ boot = NotBooted
    /\ sched = NoSched

GetChannelIds ==
    \E fault \in ReadFaults :
        /\ resolved' = get_channel_ids(lookup, platform, fault)
        /\ UNCHANGED <<lookup, platform, sinkVars, fetchVars, runVars, mainVars>>

GetCompanyIds ==
    \E fault \in ReadFaults :
        /\ resolved' = get_company_ids(lookup, platform, fault)
        /\ UNCHANGED <<lookup, platform, sinkVars, fetchVars, runVars, mainVars>>

GetResearcherIds ==
    \E fault \in ReadFaults :
        /\ resolved' = get_researcher_ids(lookup, fault)
        /\ UNCHANGED <<lookup, platform, sinkVars, fetchVars, runVars, mainVars>>

NextResolve ==
    \/ GetChannelIds
    \/ GetCompanyIds
    \/ GetResearcherIds

SpecResolve == InitResolve /\ [][NextResolve]_vars

(***************************************************************************)
(* Claims about identity resolution (checked under SpecResolve).           *)
(***************************************************************************)
\* The string a row's ID cell carries ("7" stands for the numeric cell).
IdText(cell) == IF cell.k = "num" THEN "7" ELSE Strip(cell.s)

\* The row carries a non-empty opaque ID.
CarriesId(record) == Truthy(record.ID) /\ IdText(record.ID) # ""

\* The platform gives a positive lookup for the row's ID.
PassesValidation(record) == Respond(platform, IdText(record.ID)) = "ok"

\* The rows that carry an ID and pass validation, in table order.
RECURSIVE ValidRecordsFrom(_)
ValidRecordsFrom(i) ==
    IF i > Len(lookup) THEN <<>>
    ELSE IF CarriesId(lookup[i]) /\ PassesValidation(lookup[i])
    THEN <<IdentityRecord(lookup[i], IdText(lookup[i].ID))>> \o ValidRecordsFrom(i + 1)
    ELSE ValidRecordsFrom(i + 1)

\* The IDs of the rows that carry one, in table order.
RECURSIVE CarriedIdsFrom(_)
CarriedIdsFrom(i) ==
    IF i > Len(lookup) THEN <<>>
    ELSE IF CarriesId(lookup[i])
    THEN <<IdText(lookup[i].ID)>> \o CarriedIdsFrom(i + 1)
    ELSE CarriedIdsFrom(i + 1)

\* C7: of the N rows of a lookup table that carry a non-empty ID, of which M
\* fail live validation, _get_channel_ids / _get_company_ids return exactly
\* the N-M others, in table order, repeated IDs kept.
C7_ResolveReturnsValidRowsInOrder ==
    (resolved.who \in {"YouTube", "LinkedIn"} /\ resolved.read) =>
        resolved.ids = ValidRecordsFrom(1)

\* C8: resolve never raises, and an error met while handling one row drops
\* only that row: every valid row of the table is still returned.
C8_RowErrorDropsOnlyThatRow ==
    resolved.who \in {"YouTube", "LinkedIn"} =>
        /\ ~resolved.raised
        /\ resolved.read =>
              \A i \in 1..Len(lookup) :
                  (CarriesId(lookup[i]) /\ PassesValidation(lookup[i])) =>
                      \E j \in 1..Len(resolved.ids) :
                          resolved.ids[j] = IdentityRecord(lookup[i], IdText(lookup[i].ID))

\* C9: every identity record a fetcher holds after construction was accepted
\* by a validation request of that construction, and (when the loop over the
\* table ran to its end) every row with a non-empty ID got exactly one
\* validation request.
C9_EveryIdentityValidated ==
    resolved.who # "none" =>
        /\ \A j \in 1..Len(resolved.ids) :
              \E r \in 1..Len(resolved.requests) :
                  /\ resolved.requests[r] = resolved.ids[j].id
                  /\ Respond(platform, resolved.requests[r]) = "ok"
        /\ (resolved.read /\ ~resolved.aborted) =>
              resolved.requests = CarriedIdsFrom(1)

(***************************************************************************)
(* Fetching as a state machine: a platform state is given; a fetch reads it.*)
(***************************************************************************)
InitFetch ==
    /\ remote \in YouTubeRemotes \cup LinkedInRemotes \cup MediumRemotes
                 \cup ScholarRemotes \cup EventbriteRemotes
    /\ fetched = NotFetched
    /\ lookup = <<>>
    /\ platform = NoPlatform
    /\ resolved = NotResolved
    /\ sheets = NoSheets
    /\ call = NoCall
    /\ run = NoRun
    /\ saves = <<>>
    /\ env = NoEnv
    /\ boot = NotBooted
    /\ sched = NoSched

FetchYouTube ==
    /\ remote.src = "YouTube"
    /\ fetched' = get_video_stats(remote)
    /\ UNCHANGED <<remote, sinkVars, resolveVars, runVars, mainVars>>

FetchLinkedIn ==
    /\ remote.src = "LinkedIn"
    /\ fetched' = get_company_stats(remote)
    /\ UNCHANGED <<remote, sinkVars, resolveVars, runVars, mainVars>>

FetchMedium ==
    /\ remote.src = "Medium"
    /\ fetched' = get_article_stats(remote)
    /\ UNCHANGED <<remote, sinkVars, resolveVars, runVars, mainVars>>

FetchScholar ==
    /\ remote.src = "Scholar"
    /\ fetched' = get_publications(remote.researchers)
    /\ UNCHANGED <<remote, sinkVars, resolveVars, runVars, mainVars>>

FetchEventbrite ==
    /\ remote.src = "Eventbrite"
    /\ fetched' = get_events(remote)
    /\ UNCHANGED <<remote, sinkVars, resolveVars, runVars, mainVars>>

NextFetch ==
    \/ FetchYouTube
    \/ FetchLinkedIn
    \/ FetchMedium
    \/ FetchScholar
    \/ FetchEventbrite

SpecFetch == InitFetch /\ [][NextFetch]_vars

(***************************************************************************)
(* Yearly buckets                                                          *)
(***************************************************************************)

HasColumn(df, name) == \E j \in 1..Len(df.columns) : df.columns[j] = name

\* The years a result has a bucket for: a row per year (first column) for
\* YouTube, LinkedIn and Medium, a pair of columns per year for Scholar.
BucketYears(got) ==
    IF got.src = "Scholar"
    THEN {y \in StatsFirstYear..StatsEndYear :
              HasColumn(got.frame, "publications_" \o ToString(y))}
    ELSE {got.frame.values[i][1].n :
              i \in {r \in 1..Len(got.frame.values) : got.frame.values[r][1].k = "num"}}

\* The fixed range of a source: range(2019, 2026) for Medium, 2020..2025 else
FixedYears(src) ==
    IF src = "Medium" THEN MediumFirstYear..(MediumEndYear - 1)
    ELSE StatsFirstYear..(StatsEndYear - 1)

\* The year rows are the first rows of the frame, in ascending order
YearRowsInOrder(got) ==
    LET years == FixedYears(got.src)
    IN  \A y \in years :
            LET i == y - (CHOOSE m \in years : \A o \in years : m <= o) + 1
            IN  /\ i <= Len(got.frame.values)
                /\ got.frame.values[i][1] = Num(y)

Sources == {"Eventbrite", "Scholar", "LinkedIn", "Budget", "YouTube", "Medium"}

\* The output table of each source
OutputTable(src) ==
    CASE src = "Eventbrite" -> "Eventbrite Data"
      [] src = "Scholar" -> "Scholar Yearly Stats"
      [] src = "LinkedIn" -> "LinkedIn Yearly Stats"
      [] src = "Budget" -> "Processed Budget"
      [] src = "YouTube" -> "YouTube Yearly Stats"
      [] src = "Medium" -> "Medium Stats"

\* worksheet.get_all_records(): the rows below the header row, each as long
\* as the header row, a cell without value read as ''
GetAllRecords(cells) ==
    IF Len(cells) = 0 THEN <<>>
    ELSE [i \in 1..(Len(cells) - 1) |->
             [j \in 1..Len(cells[1]) |-> CellAt(cells, i + 1, j)]]

\* pd.isna(value): '' is not NaN
IsNa(cell) == cell.k = "nan"

\* while True: value = annual_budget_row.iloc[0, col_index]; stop at a NaN
\* or past the last column
RECURSIVE BudgetSeries(_, _, _)
BudgetSeries(row, col_index, current_year) ==
    IF col_index > Len(row) THEN <<>>
    ELSE IF IsNa(row[col_index]) THEN <<>>
    ELSE <<<<Str(ToString(current_year)), row[col_index]>>>>
         \o BudgetSeries(row, col_index + 1, current_year + 1)

BudgetFaults == {"none", "open", "read"}

\* BudgetProcessor.load_from_google_sheets(spreadsheet_id): sets
\* self.budget_data and returns None; a missing worksheet, a failed request or
\* a worksheet without records (df.iloc[:, 0] raises) is logged and re-raised.
load_from_google_sheets(sh, bfault) ==
    IF bfault # "none" \/ ~sh["Budget Data"].exists
    THEN [raised |-> TRUE, budget_data |-> EmptyFrame, returned |-> EmptyFrame]
    ELSE LET records == GetAllRecords(sh["Budget Data"].cells)
             annual == SelectSeq(records, LAMBDA r : r[1] = Str("IDE Annual Budget"))
         IN  IF Len(records) = 0
             THEN [raised |-> TRUE, budget_data |-> EmptyFrame, returned |-> EmptyFrame]
             ELSE [raised |-> FALSE,
                   budget_data |->
                       DataFrame(<<"Year", "Budget">>,
                                 IF Len(annual) = 0 THEN <<>>
                                 ELSE BudgetSeries(annual[1], 2, BudgetFirstYear)),
                   returned |-> EmptyFrame]

\* update_all_data(): bfault is the request of the budget load that fails
\* ("none": none); budget_data is what load_from_google_sheets returned (None,
\* the empty frame here), so the budget save is not reached.  company_id is
\* the value of MIT_IDE_COMPANY_ID ("" when unset); li is what the LinkedIn
\* API holds and fault the request of the LinkedIn save that fails.  The
\* budget step sits directly in the outer try, whose handler logs and
\* re-raises; the LinkedIn step has a handler of its own, which logs.
update_all_data(sh, bfault, company_id, li, fault) ==
    LET loaded == load_from_google_sheets(sh, bfault)
        budget_data == loaded.returned
    IN
    IF loaded.raised
    THEN [sheets |-> sh, run |-> Ran({"Budget"}, {"Budget"}, {}, TRUE)]
    ELSE IF ~IsEmptyFrame(budget_data)
    THEN \* save_to_google_sheets(budget_data, self.spreadsheet_id): TypeError
         [sheets |-> sh, run |-> Ran({"Budget"}, {"Budget"}, {}, TRUE)]
    ELSE IF company_id = ""
    THEN [sheets |-> sh, run |-> Ran({"Budget", "LinkedIn"}, {"LinkedIn"}, {}, FALSE)]
    ELSE LET company_stats == get_company_stats(li)
             got == LinkedInSave(sh, company_stats.frame, fault)
         IN  IF company_stats.raised
             THEN [sheets |-> sh,
                   run |-> Ran({"Budget", "LinkedIn"}, {"LinkedIn"}, {}, FALSE)]
             ELSE [sheets |-> got.sheets,
                   run |-> Ran({"Budget", "LinkedIn"},
                               IF got.raised THEN {"LinkedIn"} ELSE {},
                               IF got.sink = "returned"
                               THEN {"LinkedIn Yearly Stats"} ELSE {},
                               FALSE)]

\* Content left in a table by an earlier run, larger than any new frame
OldCells == [i \in 1..10 |-> [j \in 1..14 |-> Str("old")]]

OldSheets ==
    [n \in TableNames |-> IF n \in OutputTables THEN Worksheet(OldCells) ELSE NoWorksheet]

\* What the 'Budget Data' worksheet may hold
BudgetHeader == <<Str("Category"), Str("FY20"), Str("FY21"), Str("FY22")>>

BudgetGrids ==
    {<<BudgetHeader, <<Str("IDE Annual Budget"), Num(100), Num(120), Num(90)>>>>,
     <<BudgetHeader, <<Str("Staff"), Num(1)>>, <<Str("IDE Annual Budget"), Num(100)>>>>,
     <<BudgetHeader, <<Str("Staff"), Num(1)>>>>,
     <<BudgetHeader>>}

\* The spreadsheets a run may find: with or without earlier output, and with
\* or without a 'Budget Data' worksheet
RunSheets ==
    {sh : sh \in {NoSheets, OldSheets}} \cup
    {[sh EXCEPT !["Budget Data"] = Worksheet(g)] :
        sh \in {NoSheets, OldSheets}, g \in BudgetGrids}

InitRun ==
    /\ sheets \in RunSheets
    /\ remote \in LinkedInRemotes
    /\ run = NoRun
    /\ call = NoCall
    /\ lookup = <<>>
    /\ platform = NoPlatform
    /\ resolved = NotResolved
    /\ fetched = NotFetched
    /\ saves = <<>>
    /\ env = NoEnv
    /\ boot = NotBooted
    /\ sched = NoSched

UpdateAllData ==
    \E bfault \in BudgetFaults, company_id \in {"", "id1"}, fault \in SaveFaults :
        /\ SaveFaultApplies(sheets, "LinkedIn Yearly Stats", fault)
        /\ LET did == update_all_data(sheets, bfault, company_id, remote, fault)
           IN  /\ sheets' = did.sheets
               /\ run' = did.run
        /\ UNCHANGED <<call, resolveVars, fetchVars, saves, mainVars>>

NextRun == UpdateAllData

SpecRun == InitRun /\ [][NextRun]_vars

\* C1 (as stated): a step that raises does not keep the other sources from
\* running in the same update_all_data call; in particular, when the budget
\* step raised, the LinkedIn step has still run.
C1_BudgetFailureLeavesLinkedInRunning ==
    (run.ran /\ "Budget" \in run.failed) => "LinkedIn" \in run.attempted

\* C2 (as stated): every update_all_data call attempts every source the
\* Coordinator holds, and after a call in which nothing failed every source's
\* output table has been rewritten.
C2_EverySourceAttempted ==
    run.ran =>
        /\ run.attempted = Sources
        /\ (run.failed = {} /\ ~run.raised) =>
               run.written = {OutputTable(src) : src \in Sources}

(***************************************************************************)
(* A source's fetch followed by its save, repeated against one remote      *)
(***************************************************************************)
MaxRuns == 2

InitTwice ==
    /\ sheets \in {NoSheets, OldSheets}
    /\ remote \in YouTubeRemotes \cup LinkedInRemotes \cup MediumRemotes
                 \cup ScholarRemotes
    /\ fetched = NotFetched
    /\ saves = <<>>
    /\ env = NoEnv
    /\ boot = NotBooted
    /\ sched = NoSched
    /\ run = NoRun
    /\ call = NoCall
    /\ lookup = <<>>
    /\ platform = NoPlatform
    /\ resolved = NotResolved

\* get_video_stats() then save_to_google_sheets(stats); a fetch that raises
\* saves nothing.  saves records the table after each save that returned.
YouTubeFetchSave ==
    /\ remote.src = "YouTube" /\ Len(saves) < MaxRuns
    /\ LET stats == get_video_stats(remote)
           got == YouTubeSave(sheets, stats.frame, "none")
       IN  /\ fetched' = stats
           /\ sheets' = IF stats.raised THEN sheets ELSE got.sheets
           /\ saves' = IF stats.raised THEN saves
                       ELSE Append(saves, got.sheets["YouTube Yearly Stats"].cells)
    /\ UNCHANGED <<remote, call, resolveVars, run, mainVars>>

LinkedInFetchSave ==
    /\ remote.src = "LinkedIn" /\ Len(saves) < MaxRuns
    /\ LET stats == get_company_stats(remote)
           got == LinkedInSave(sheets, stats.frame, "none")
       IN  /\ fetched' = stats
           /\ sheets' = IF stats.raised THEN sheets ELSE got.sheets
           /\ saves' = IF stats.raised THEN saves
                       ELSE Append(saves, got.sheets["LinkedIn Yearly Stats"].cells)
    /\ UNCHANGED <<remote, call, resolveVars, run, mainVars>>

MediumFetchSave ==
    /\ remote.src = "Medium" /\ Len(saves) < MaxRuns
    /\ LET stats == get_article_stats(remote)
           got == MediumSave(sheets, stats.frame, "none")
       IN  /\ fetched' = stats
           /\ sheets' = got.sheets
           /\ saves' = Append(saves, got.sheets["Medium Stats"].cells)
    /\ UNCHANGED <<remote, call, resolveVars, run, mainVars>>

ScholarFetchSave ==
    /\ remote.src = "Scholar" /\ Len(saves) < MaxRuns
    /\ LET stats == get_publications(remote.researchers)
           got == ScholarSave(sheets, stats.frame, "none")
       IN  /\ fetched' = stats
           /\ sheets' = got.sheets
           /\ saves' = Append(saves, got.sheets["Scholar Yearly Stats"].cells)
    /\ UNCHANGED <<remote, call, resolveVars, run, mainVars>>

NextTwice ==
    \/ YouTubeFetchSave
    \/ LinkedInFetchSave
    \/ MediumFetchSave
    \/ ScholarFetchSave

SpecTwice == InitTwice /\ [][NextTwice]_vars

BucketKey(row) == row[1]

IsAggregateKey(cell) == cell \in {Str("Totals"), Str("Total")}

AggregateRows(df) ==
    {i \in 1..Len(df.values) : IsAggregateKey(BucketKey(df.values[i]))}

\* One aggregate row, the last one, and no bucket key on two rows
OneTerminalAggregate(df) ==
    /\ AggregateRows(df) = {Len(df.values)}
    /\ Len(df.values) > 0
    /\ \A i, j \in 1..Len(df.values) :
           BucketKey(df.values[i]) = BucketKey(df.values[j]) => i = j

FetchedVideos(yt) ==
    ScanPages(PagesOf(yt.items, yt.pageSize), 1, yt.total_videos,
              ScanState(<<>>, 0, FALSE)).videos

\* C12: in a YouTube result, the row of each year Y in 2020..2025 holds the
\* number of fetched videos published in Y and the sum of their views, and the
\* Totals row holds the channel's videoCount, viewCount and subscriberCount of
\* the channel statistics call, not the sums of the yearly rows.
C12_YearlyCountsAndLiveTotals ==
    (fetched.src = "YouTube" /\ ~fetched.raised) =>
        LET vids == FetchedVideos(remote)
            rows == fetched.frame.values
            InYear(y) == {k \in 1..Len(vids) : vids[k].year = y}
        IN  /\ Len(rows) = 7
            /\ \A i \in 1..6 :
                   /\ rows[i][1] = Num(2019 + i)
                   /\ rows[i][2] = Num(Cardinality(InYear(2019 + i)))
                   /\ rows[i][3] = Num(SumOf(OfYear(vids, 2019 + i), "views"))
            /\ rows[7] = <<Str("Totals"), Num(remote.total_videos),
                           Num(remote.total_views), Num(remote.subscribers)>>

\* A channel reporting 4 videos and 700 views was fetched with two videos of
\* 2021 in the listing: the Totals row differs from the sum of the yearly rows.
C12_Witness ==
    /\ fetched.src = "YouTube" /\ ~fetched.raised
    /\ remote.total_videos = 4
    /\ fetched.frame.values[2][2] = Num(2)
    /\ fetched.frame.values[7][2] = Num(4)
    /\ fetched.frame.values[7][3] = Num(700)

\* The platform supplied nothing for year y: no fetched video or article of
\* that year; the LinkedIn API supplies no per-year figure at all
NoDataFor(rm, y) ==
    CASE rm.src = "YouTube" -> Len(OfYear(FetchedVideos(rm), y)) = 0
      [] rm.src = "Medium" -> Len(OfYear(DetailedArticles(rm.articles), y)) = 0
      [] rm.src = "LinkedIn" -> TRUE
      [] OTHER -> FALSE

\* C13 (as stated): in every fetch result, a yearly row for which the platform
\* supplied no data has all its numeric fields equal to zero; a live counter
\* (followers, subscribers) appears in the aggregate row only.
C13_EmptyBucketsAreZero ==
    (fetched.src \in {"YouTube", "LinkedIn", "Medium"} /\ ~fetched.raised) =>
        \A i \in 1..Len(fetched.frame.values) :
            LET row == fetched.frame.values[i]
            IN  (BucketKey(row).k = "num" /\ NoDataFor(remote, BucketKey(row).n)) =>
                    \A j \in 2..Len(row) : row[j].k = "num" => row[j].n = 0

(***************************************************************************)
(* The main process: the startup run, then schedule_updates, whose job     *)
(* _check_and_update runs every day at 02:00.                              *)
(***************************************************************************)

\* Days in a month of the model's calendar
MaxDay == 3

\* if current_month in [1, 4, 7, 10]
UpdateMonths == {1, 4, 7, 10}

\* _check_and_update() with the day of the month tested as well
check_and_update_first_day(sh, month, day, bfault, company_id, li, fault) ==
    IF month \in UpdateMonths /\ day = 1
    THEN LET did == update_all_data(sh, bfault, company_id, li, fault)
         IN  [sheets |-> did.sheets, run |-> did.run, updated |-> TRUE]
    ELSE [sheets |-> sh, run |-> NoRun, updated |-> FALSE]

\* DataUpdater._check_and_update() when datetime.now() is (month, day)
check_and_update(sh, month, day, bfault, company_id, li, fault) ==
    IF month \in UpdateMonths
    THEN LET did == update_all_data(sh, bfault, company_id, li, fault)
         IN  [sheets |-> did.sheets, run |-> did.run, updated |-> TRUE]
    ELSE [sheets |-> sh, run |-> NoRun, updated |-> FALSE]

\* os.getenv('MIT_IDE_COMPANY_ID')
CompanyId(e) == IF "MIT_IDE_COMPANY_ID" \in e.missing THEN "" ELSE "id1"

\* The day after (month, day)
NextDate(month, day) ==
    IF day < MaxDay THEN [month |-> month, day |-> day + 1]
    ELSE [month |-> (month % 12) + 1, day |-> 1]

InitMain ==
    /\ sched \in {[pc |-> "constructed", month |-> m, day |-> d, startup |-> 0,
                   entered |-> FALSE, updated |-> FALSE, checkedMonth |-> 0,
                   checkedDay |-> 0] : m \in 1..12, d \in 1..MaxDay}
    /\ env \in {NoEnv, [missing |-> {"MIT_IDE_COMPANY_ID"}, credFile |-> TRUE]}
    /\ boot = Booted(FALSE, {}, Sources, TRUE)
    /\ sheets \in {sh \in RunSheets :
                      /\ sh["Budget Data"].exists
                      /\ Len(sh["Budget Data"].cells) = 2}
    /\ remote \in {li \in LinkedInRemotes : li.hasCount /\ li.followerCount = 5}
    /\ run = NoRun
    /\ call = NoCall
    /\ lookup = <<>>
    /\ platform = NoPlatform
    /\ resolved = NotResolved
    /\ fetched = NotFetched
    /\ saves = <<>>

\* __main__: updater.update_all_data(); updater.schedule_updates().  An
\* exception of the run is logged as fatal and re-raised: the process ends.
StartupRun ==
    /\ sched.pc = "constructed"
    /\ \E bfault \in BudgetFaults, fault \in SaveFaults :
        /\ SaveFaultApplies(sheets, "LinkedIn Yearly Stats", fault)
        /\ LET did == update_all_data(sheets, bfault, CompanyId(env), remote, fault)
           IN  /\ sheets' = did.sheets
               /\ run' = did.run
               /\ sched' = [sched EXCEPT !.startup = @ + 1,
                                         !.pc = IF did.run.raised THEN "exited" ELSE "loop",
                                         !.entered = ~did.run.raised]
    /\ UNCHANGED <<call, resolveVars, fetchVars, saves, env, boot>>

\* schedule.every().day.at("02:00").do(self._check_and_update), run by
\* schedule.run_pending(); an exception of the job leaves the loop.
DailyCheck ==
    /\ sched.pc = "loop"
    /\ \E bfault \in BudgetFaults, fault \in SaveFaults :
        /\ SaveFaultApplies(sheets, "LinkedIn Yearly Stats", fault)
        /\ LET did == check_and_update(sheets, sched.month, sched.day, bfault,
                                       CompanyId(env), remote, fault)
               next == NextDate(sched.month, sched.day)
           IN  /\ sheets' = did.sheets
               /\ run' = IF did.updated THEN did.run ELSE run
               /\ sched' = [sched EXCEPT !.updated = did.updated,
                                         !.checkedMonth = sched.month,
                                         !.checkedDay = sched.day,
                                         !.month = next.month,
                                         !.day = next.day,
                                         !.pc = IF did.updated /\ did.run.raised
                                                THEN "exited" ELSE "loop"]
    /\ UNCHANGED <<call, resolveVars, fetchVars, saves, env, boot>>

NextMain ==
    \/ StartupRun
    \/ DailyCheck

SpecMain == InitMain /\ [][NextMain]_vars

C15_UpdateOnlyOnFirstOfQuarter ==
    (sched.checkedMonth # 0 /\ sched.updated) =>
        (sched.checkedDay = 1 /\ sched.checkedMonth \in {1, 4, 7, 10})

\* C16 (as stated): on process start update_all_data runs exactly once,
\* whatever the month, and schedule_updates is entered after it, always.
C16_StartupRunThenLoop ==
    /\ sched.startup <= 1
    /\ sched.entered => sched.startup = 1
    /\ (sched.pc # "none" /\ sched.startup = 1) => sched.entered

(***************************************************************************)
(* Construction: DataUpdater.__init__ and the fetchers' constructors       *)
(***************************************************************************)

\* How many variables may be unset at once
MaxMissing == 2

\* required_vars of validate_env_variables
RequiredVars ==
    {"GOOGLE_CREDENTIALS_FILE", "GOOGLE_SHEET_ID", "EVENTBRITE_API_KEY",
     "EVENTBRITE_PRIVATE_TOKEN", "YOUTUBE_API_KEY"}

\* os.getenv names read by LinkedInFetcher.__init__
LinkedInVars == {"LINKEDIN_CLIENT_ID", "LINKEDIN_CLIENT_SECRET", "LINKEDIN_ACCESS_TOKEN"}

\* os.getenv names read by MediumFetcher.__init__
MediumVars == {"MEDIUM_ENTITY_NAME", "MEDIUM_API_KEY"}

\* os.getenv names read by _init_youtube_sheet
YouTubeSheetVars == {"MIT_IDE_USER_ID", "MIT_IDE_CHANNEL_ID"}

EnvNames ==
    RequiredVars \cup LinkedInVars \cup MediumVars \cup YouTubeSheetVars
    \cup {"MIT_IDE_COMPANY_ID"}

InitFaults == {"none", "pre_open", "pre_worksheet", "pre_add", "pre_add_lost",
               "update", "update_lost"}

\* _init_linkedin_sheet / _init_youtube_sheet: look the lookup worksheet up;
\* when the lookup raises (except Exception), add it, read the IDs from the
\* environment (raising when one is unset) and write the two header rows.
init_sheet(sh, name, headers, envOk, fault) ==
    LET pre == GetOrCreate(sh, name, fault, TRUE)
    IN  IF pre.raised THEN pre
        ELSE IF sh[name].exists THEN Outcome(sh, FALSE)
        ELSE IF ~envOk \/ fault = "update" THEN Outcome(pre.sheets, TRUE)
        ELSE Outcome([pre.sheets EXCEPT ![name].cells = WsUpdateA1(@, headers)],
                     fault = "update_lost")

LinkedInHeaders ==
    <<<<Str("Name"), Str("Segment"), Str("Company ID"), Str("Company URL"), Str("Notes")>>,
      <<Str("MIT IDE"), Str("Main"), Str("id1"), Str("url"), Blank>>>>

YouTubeHeaders ==
    <<<<Str("Name"), Str("Segment"), Str("User ID"), Str("Channel ID"),
        Str("Channel URL"), Str("Notes")>>,
      <<Str("MIT IDE"), Str("Main"), Str("id2"), Str("id1"), Str("url"), Blank>>>>

init_linkedin_sheet(sh, e, fault) ==
    init_sheet(sh, "LinkedIn", LinkedInHeaders, "MIT_IDE_COMPANY_ID" \notin e.missing, fault)

init_youtube_sheet(sh, e, fault) ==
    init_sheet(sh, "YouTube", YouTubeHeaders, YouTubeSheetVars \cap e.missing = {}, fault)

\* validate_env_variables(): the required names that are not set
validate_env_variables(e) == RequiredVars \cap e.missing

\* What may fail during construction besides the environment: the Eventbrite
\* organization lookup (_get_organization_id), or a request of
\* _init_linkedin_sheet
BootFaults == {"none", "organization", "pre_add_lost", "update"}

\* DataUpdater.__init__(): validate_env_variables(), then EventbriteFetcher(),
\* ScholarFetcher(), LinkedInFetcher(), BudgetProcessor(), YouTubeFetcher(),
\* MediumFetcher(), SheetsManager(); the first exception is logged and
\* re-raised.  Every SheetsManager() raises when the credential file is not
\* there; the Eventbrite and Scholar constructors issue remote requests.
DataUpdaterInit(sh, e, fault) ==
    LET missing_vars == validate_env_variables(e)
        li == init_linkedin_sheet(sh, e, IF fault = "organization" THEN "none" ELSE fault)
        yt == init_youtube_sheet(li.sheets, e, "none")
    IN  IF missing_vars # {}
        THEN [sheets |-> sh, boot |-> Booted(TRUE, missing_vars, {}, FALSE)]
        ELSE IF ~e.credFile
        THEN [sheets |-> sh, boot |-> Booted(TRUE, {}, {}, FALSE)]
        ELSE IF fault = "organization"
        THEN [sheets |-> sh, boot |-> Booted(TRUE, {}, {}, TRUE)]
        ELSE IF LinkedInVars \cap e.missing # {}
        THEN [sheets |-> sh, boot |-> Booted(TRUE, {}, {"Eventbrite", "Scholar"}, TRUE)]
        ELSE IF li.raised
        THEN [sheets |-> li.sheets,
              boot |-> Booted(TRUE, {"MIT_IDE_COMPANY_ID"}, {"Eventbrite", "Scholar"}, TRUE)]
        ELSE IF yt.raised
        THEN [sheets |-> yt.sheets,
              boot |-> Booted(TRUE, YouTubeSheetVars,
                              {"Eventbrite", "Scholar", "LinkedIn", "Budget"}, TRUE)]
        ELSE IF "MEDIUM_ENTITY_NAME" \in e.missing
        THEN [sheets |-> yt.sheets,
              boot |-> Booted(TRUE, {"MEDIUM_ENTITY_NAME"}, Sources \ {"Medium"}, TRUE)]
        ELSE IF "MEDIUM_API_KEY" \in e.missing
        THEN [sheets |-> yt.sheets,
              boot |-> Booted(TRUE, {"MEDIUM_API_KEY"}, Sources \ {"Medium"}, TRUE)]
        ELSE [sheets |-> yt.sheets, boot |-> Booted(FALSE, {}, Sources, TRUE)]

InitBoot ==
    /\ env \in {[missing |-> m, credFile |-> f] :
                   m \in {x \in SUBSET EnvNames : Cardinality(x) <= MaxMissing},
                   f \in BOOLEAN}
    /\ boot = NotBooted
    /\ sheets \in {NoSheets,
                   [NoSheets EXCEPT !["LinkedIn"] = Worksheet(LinkedInHeaders),
                                    !["YouTube"] = Worksheet(YouTubeHeaders)],
                   [OldSheets EXCEPT !["LinkedIn"] = Worksheet(LinkedInHeaders),
                                     !["YouTube"] = Worksheet(YouTubeHeaders),
                                     !["Budget Data"] =
                                         Worksheet(<<BudgetHeader,
                                                     <<Str("Staff"), Num(1)>>>>)]}
    /\ sched = NoSched
    /\ run = NoRun
    /\ call = NoCall
    /\ lookup = <<>>
    /\ platform = NoPlatform
    /\ resolved = NotResolved
    /\ remote \in {li \in LinkedInRemotes :
                      li.org = "200" /\ li.hasCount /\ li.followerCount = 5}
    /\ fetched = NotFetched
    /\ saves = <<>>

\* __main__ with an except clause that logs and goes on to the startup run
ConstructAndGoOn ==
    /\ ~boot.done
    /\ \E fault \in BootFaults :
        /\ fault = "pre_add_lost" => ~sheets["LinkedIn"].exists
        /\ LET did == DataUpdaterInit(sheets, env, fault)
           IN  /\ boot' = did.boot
               /\ sheets' = did.sheets
               /\ sched' = [sched EXCEPT !.pc = "constructed"]
    /\ UNCHANGED <<call, resolveVars, fetchVars, runVars, env>>

\* __main__: try: updater = DataUpdater() ... except Exception: log "Fatal
\* error in main"; raise.  When the constructor raises the process ends.
Construct ==
    /\ ~boot.done
    /\ \E fault \in BootFaults :
        /\ fault = "pre_add_lost" => ~sheets["LinkedIn"].exists
        /\ LET did == DataUpdaterInit(sheets, env, fault)
           IN  /\ boot' = did.boot
               /\ sheets' = did.sheets
               /\ sched' = [sched EXCEPT
                                !.pc = IF did.boot.raised THEN "exited"
                                       ELSE "constructed"]
    /\ UNCHANGED <<call, resolveVars, fetchVars, runVars, env>>

NextBoot ==
    \/ Construct
    \/ StartupRun

SpecBoot == InitBoot /\ [][NextBoot]_vars

\* C17 (as stated): when a configuration value a fetcher needs is missing (a
\* required variable, the credential file, a LinkedIn or Medium credential or
\* entity ID), construction fails with an error that lists the missing names,
\* before any fetcher is constructed and before any remote request.
C17_MissingConfigFailsFirst ==
    LET needed == RequiredVars \cup LinkedInVars \cup MediumVars
    IN  (boot.done /\ (env.missing \cap needed # {} \/ ~env.credFile)) =>
            /\ boot.raised
            /\ boot.constructed = {}
            /\ ~boot.requests
            /\ env.credFile => (env.missing \cap needed) \subseteq boot.listed

(***************************************************************************)
(* Worksheet creation: the requests update_sheet, create_sheets, the saves *)
(* and the lookup-sheet initialisers send to the spreadsheet service.  The *)
(* service keeps worksheet titles unique: add_worksheet for a title that   *)
(* exists is rejected with an error.                                       *)
(***************************************************************************)

Req(what, name) == [what |-> what, name |-> name]

\* update_sheet that clears only a worksheet it found
update_sheet_requests_clear_found(sh, name, fault) ==
    LET open == <<Req("open_by_key", name)>>
        find == open \o <<Req("worksheet", name)>>
        have == IF sh[name].exists THEN find ELSE find \o <<Req("add_worksheet", name)>>
        cleared == IF sh[name].exists THEN have \o <<Req("clear", name)>> ELSE have
    IN  IF fault = "open" THEN open
        ELSE IF fault = "worksheet" THEN find
        ELSE IF fault \in {"add", "add_lost"} /\ ~sh[name].exists THEN have
        ELSE IF fault \in {"clear", "clear_lost"} THEN cleared
        ELSE cleared \o <<Req("update", name)>>

\* The requests of SheetsManager.update_sheet, up to the one that raises:
\* open_by_key, worksheet, add_worksheet on WorksheetNotFound, clear, update
update_sheet_requests(sh, name, fault) ==
    LET open == <<Req("open_by_key", name)>>
        find == open \o <<Req("worksheet", name)>>
        have == IF sh[name].exists THEN find ELSE find \o <<Req("add_worksheet", name)>>
    IN  IF fault = "open" THEN open
        ELSE IF fault = "worksheet" THEN find
        ELSE IF fault \in {"add", "add_lost"} /\ ~sh[name].exists THEN have
        ELSE IF fault \in {"clear", "clear_lost"} THEN have \o <<Req("clear", name)>>
        ELSE have \o <<Req("clear", name), Req("update", name)>>

\* The requests of a get-or-create lookup (GetOrCreate): with a catch-all
\* handler a lookup that raises for any reason is followed by add_worksheet
lookup_requests(sh, name, fault, catchAll) ==
    LET open == <<Req("open_by_key", name)>>
        find == open \o <<Req("worksheet", name)>>
    IN  IF fault = "pre_open" THEN open
        ELSE IF fault = "pre_worksheet"
        THEN IF catchAll THEN find \o <<Req("add_worksheet", name)>> ELSE find
        ELSE IF sh[name].exists THEN find
        ELSE find \o <<Req("add_worksheet", name)>>

\* The requests of a fetcher's save_to_google_sheets
save_requests(sh, name, stats, fault, catchAll) ==
    IF IsEmptyFrame(stats) THEN <<>>
    ELSE LET pre == GetOrCreate(sh, name, fault, catchAll)
         IN  lookup_requests(sh, name, fault, catchAll)
             \o (IF pre.raised THEN <<>>
                 ELSE update_sheet_requests(pre.sheets, name, SinkFaultOf(fault)))

\* The requests of _init_linkedin_sheet / _init_youtube_sheet
init_requests(sh, name, envOk, fault) ==
    LET pre == GetOrCreate(sh, name, fault, TRUE)
    IN  lookup_requests(sh, name, fault, TRUE)
        \o (IF pre.raised \/ sh[name].exists \/ ~envOk THEN <<>>
            ELSE <<Req("update", name)>>)

\* required_sheets of create_sheets
RequiredSheets ==
    <<"Eventbrite Data", "Scholar Yearly Stats", "Scholar Author Stats",
      "LinkedIn Organization Stats", "LinkedIn Post Metrics", "Budget Summary",
      "Budget Trends">>

\* SheetsManager.create_sheets(spreadsheet_id) from the k-th required sheet on:
\* sheet.worksheet(name), add_worksheet on WorksheetNotFound; `fault` is the
\* request that fails for the sheet number `at`.  Any exception is logged and
\* re-raised; what was created before it stays.
RECURSIVE CreateFrom(_, _, _, _, _)
CreateFrom(sh, k, fault, at, reqs) ==
    IF k > Len(RequiredSheets) THEN [sheets |-> sh, raised |-> FALSE, reqs |-> reqs]
    ELSE LET name == RequiredSheets[k]
             find == reqs \o <<Req("worksheet", name)>>
             add == find \o <<Req("add_worksheet", name)>>
         IN  IF at = k /\ fault = "worksheet"
             THEN [sheets |-> sh, raised |-> TRUE, reqs |-> find]
             ELSE IF sh[name].exists THEN CreateFrom(sh, k + 1, fault, at, find)
             ELSE IF at = k /\ fault = "add"
             THEN [sheets |-> sh, raised |-> TRUE, reqs |-> add]
             ELSE IF at = k /\ fault = "add_lost"
             THEN [sheets |-> AddWorksheet(sh, name), raised |-> TRUE, reqs |-> add]
             ELSE CreateFrom(AddWorksheet(sh, name), k + 1, fault, at, add)

create_sheets(sh, fault, at) ==
    IF fault = "open"
    THEN [sheets |-> sh, raised |-> TRUE, reqs |-> <<Req("open_by_key", "")>>]
    ELSE CreateFrom(sh, 1, fault, at, <<Req("open_by_key", "")>>)

\* The last call: its name, the spreadsheet before it, how it ended and the
\* requests it sent
Issued(op, name, fault, raised, sink, reqs) ==
    [op |-> op, name |-> name, before |-> sheets, fault |-> fault,
     raised |-> raised, sink |-> sink, reqs |-> reqs]

NothingIssued ==
    [op |-> "none", name |-> "", before |-> NoSheets, fault |-> "none",
     raised |-> FALSE, sink |-> "not_called", reqs |-> <<>>]

TableFrames ==
    {DataFrame(<<"Year", "Followers">>, YearRows(k, <<Num(5)>>)) : k \in {0, 1}}

InitTables ==
    /\ sheets = NoSheets
    /\ call = NothingIssued
    /\ lookup = <<>>
    /\ platform = NoPlatform
    /\ resolved = NotResolved
    /\ remote = NoRemote
    /\ fetched = NotFetched
    /\ run = NoRun
    /\ saves = <<>>
    /\ env \in {NoEnv, [missing |-> {"MIT_IDE_COMPANY_ID"}, credFile |-> TRUE]}
    /\ boot = NotBooted
    /\ sched = NoSched

TablesUnchanged == UNCHANGED <<resolveVars, fetchVars, runVars, mainVars>>

TUpdateSheet ==
    \E data \in TableFrames,
       fault \in {"none", "worksheet", "add", "add_lost", "clear", "update"} :
        /\ SinkFaultApplies(sheets, "Eventbrite Data", fault)
        /\ LET got == update_sheet(sheets, "Eventbrite Data", data, fault)
           IN  /\ sheets' = got.sheets
               /\ call' = Issued("update_sheet", "Eventbrite Data", fault, got.raised,
                                 got.sink,
                                 update_sheet_requests(sheets, "Eventbrite Data", fault))
        /\ TablesUnchanged

TSaveYouTube ==
    \E data \in TableFrames,
       fault \in {"none", "pre_worksheet", "pre_add_lost", "clear"} :
        /\ SaveFaultApplies(sheets, "YouTube Yearly Stats", fault)
        /\ LET got == YouTubeSave(sheets, data, fault)
           IN  /\ sheets' = got.sheets
               /\ call' = Issued("save", "YouTube Yearly Stats", fault, got.raised,
                                 got.sink,
                                 save_requests(sheets, "YouTube Yearly Stats", data,
                                               fault, TRUE))
        /\ TablesUnchanged

TSaveScholar ==
    \E data \in TableFrames, fault \in {"none", "pre_worksheet", "pre_add_lost"} :
        /\ SaveFaultApplies(sheets, "Scholar Yearly Stats", fault)
        /\ LET got == ScholarSave(sheets, data, fault)
           IN  /\ sheets' = got.sheets
               /\ call' = Issued("save", "Scholar Yearly Stats", fault, got.raised,
                                 got.sink,
                                 save_requests(sheets, "Scholar Yearly Stats", data,
                                               fault, FALSE))
        /\ TablesUnchanged

CreateSheets ==
    \E fault \in {"none", "open", "worksheet", "add", "add_lost"}, at \in {1, 3} :
        /\ fault \in {"add", "add_lost"} => ~sheets[RequiredSheets[at]].exists
        /\ LET got == create_sheets(sheets, fault, at)
           IN  /\ sheets' = got.sheets
               /\ call' = Issued("create_sheets", "", fault, got.raised, "not_called",
                                 got.reqs)
        /\ TablesUnchanged

InitLinkedInSheet ==
    \E fault \in InitFaults :
        /\ SaveFaultApplies(sheets, "LinkedIn", fault)
        /\ LET got == init_linkedin_sheet(sheets, env, fault)
           IN  /\ sheets' = got.sheets
               /\ call' = Issued("init", "LinkedIn", fault, got.raised, "not_called",
                                 init_requests(sheets, "LinkedIn",
                                               "MIT_IDE_COMPANY_ID" \notin env.missing,
                                               fault))
        /\ TablesUnchanged

InitYouTubeSheet ==
    \E fault \in InitFaults :
        /\ SaveFaultApplies(sheets, "YouTube", fault)
        /\ LET got == init_youtube_sheet(sheets, env, fault)
           IN  /\ sheets' = got.sheets
               /\ call' = Issued("init", "YouTube", fault, got.raised, "not_called",
                                 init_requests(sheets, "YouTube",
                                               YouTubeSheetVars \cap env.missing = {},
                                               fault))
        /\ TablesUnchanged

NextTables ==
    \/ TUpdateSheet
    \/ TSaveYouTube
    \/ TSaveScholar
    \/ CreateSheets
    \/ InitLinkedInSheet
    \/ InitYouTubeSheet

SpecTables == InitTables /\ [][NextTables]_vars


\* The positions of the call's requests of one kind
RequestsOf(c, what) == {i \in DOMAIN c.reqs : c.reqs[i].what = what}

\* C18: table creation is get-or-create and idempotent, and update_sheet clears
\* unconditionally.  After any sequence of update_sheet, create_sheets, save
\* and init calls: no worksheet that existed has gone; no call asks twice for
\* the creation of one name; add_worksheet for a name that already has a
\* worksheet is only ever the last request of a call that raised and changed
\* nothing (the service rejected it), so no second worksheet is made; and in
\* update_sheet every update comes directly after a clear of the same
\* worksheet, also when the worksheet was created by this very call.
C18_GetOrCreateAndUnconditionalClear ==
    /\ \A n \in TableNames : call.before[n].exists => sheets[n].exists
    /\ \A i, j \in RequestsOf(call, "add_worksheet") :
           call.reqs[i].name = call.reqs[j].name => i = j
    /\ \A i \in RequestsOf(call, "add_worksheet") :
           call.before[call.reqs[i].name].exists =>
               /\ i = Len(call.reqs)
               /\ call.raised
               /\ sheets = call.before
    /\ call.op \in {"update_sheet", "save"} =>
           /\ \A i \in RequestsOf(call, "update") :
                  /\ i > 1
                  /\ call.reqs[i - 1] = Req("clear", call.reqs[i].name)
           /\ call.sink = "returned" =>
                  /\ RequestsOf(call, "update") = {Len(call.reqs)}
                  /\ RequestsOf(call, "clear") = {Len(call.reqs) - 1}

\* A save created its table, and update_sheet then found it, cleared it and wrote it
C18_Witness ==
    /\ call.op = "save"
    /\ call.name = "YouTube Yearly Stats"
    /\ ~call.before["YouTube Yearly Stats"].exists
    /\ sheets["YouTube Yearly Stats"].exists
    /\ call.sink = "returned"
    /\ Cardinality(RequestsOf(call, "add_worksheet")) = 1
    /\ Cardinality(RequestsOf(call, "clear")) = 1


\* The 'Budget Data' worksheet has a row labeled 'IDE Annual Budget' with at
\* least one value
HasAnnualBudget(sh) ==
    /\ sh["Budget Data"].exists
    /\ \E r \in DOMAIN GetAllRecords(sh["Budget Data"].cells) :
           LET row == GetAllRecords(sh["Budget Data"].cells)[r]
           IN  /\ row[1] = Str("IDE Annual Budget")
               /\ Len(row) >= 2
               /\ row[2].k = "num"

\* C19 (as stated): after update_all_data has completed on a spreadsheet whose
\* 'Budget Data' table has an 'IDE Annual Budget' row with at least one value,
\* the table 'Processed Budget' holds the Year/Budget series reconstructed
\* from that row.
C19_ProcessedBudgetWritten ==
    (run.ran /\ ~run.raised /\ HasAnnualBudget(sheets)) =>
        sheets["Processed Budget"] =
            Worksheet(Written(load_from_google_sheets(sheets, "none").budget_data))


\* The events of the listing that _process_events can turn into a row
GoodEvents(eb) == SelectSeq(eb.events, LAMBDA ev : ev.kind = "ok")

\* C20 (as stated): in every fetcher an item that fails to normalise (a field
\* is missing, a value does not parse, its detail lookup fails) is passed over
\* and the fetch goes on: with the channel, the listing and every page served,
\* the fetch does not raise, and its result holds exactly the items that
\* normalised.
C20_ItemFailureIsSkipped ==
    /\ (fetched.src = "YouTube" /\ remote.channel = "ok") => ~fetched.raised
    /\ (fetched.src = "Eventbrite"
          /\ ~CollectEvents(PagesOf(remote.events, remote.pageSize), 1,
                            remote.badPage, <<>>).raised
          /\ Len(GoodEvents(remote)) > 0) =>
           /\ ~fetched.raised
           /\ Len(fetched.frame.values) = Len(GoodEvents(remote))
    /\ (fetched.src = "Medium" /\ remote.user = "ok" /\ remote.listing = "ok"
          /\ Len(DetailedArticles(remote.articles)) > 0) =>
           /\ ~fetched.raised
           /\ fetched.frame.values[Len(fetched.frame.values)][2] =
                  Num(Len(DetailedArticles(remote.articles)))


\* C27 (as stated): an exception raised inside update_all_data during a
\* scheduled check does not end the daily-check loop: once schedule_updates
\* was entered the process stays in the loop, so every later day in an update
\* window still triggers an update.
C27_ScheduledFailureKeepsLoop ==
    sched.entered => sched.pc = "loop"

\* C25 (as stated): load_from_google_sheets sets budget_data to the values of
\* the 'IDE Annual Budget' row from the second column up to the first empty
\* cell or the end of the row, paired with the years 2020, 2021, ... by
\* position; values after the first empty cell are left out, and without a
\* marker row the series is empty.
RECURSIVE UpToFirstEmpty(_, _, _)
UpToFirstEmpty(row, col_index, current_year) ==
    IF col_index > Len(row) THEN <<>>
    ELSE IF row[col_index] \in {Blank, NaN} THEN <<>>
    ELSE <<<<Str(ToString(current_year)), row[col_index]>>>>
         \o UpToFirstEmpty(row, col_index + 1, current_year + 1)

C25_BudgetSeriesStopsAtEmptyCell ==
    (run.ran /\ ~("Budget" \in run.failed)) =>
        LET records == GetAllRecords(sheets["Budget Data"].cells)
            annual == SelectSeq(records, LAMBDA r : r[1] = Str("IDE Annual Budget"))
        IN  load_from_google_sheets(sheets, "none").budget_data.values =
                IF Len(annual) = 0 THEN <<>>
                ELSE UpToFirstEmpty(annual[1], 2, 2020)

\* C30 (as stated): after _init_youtube_sheet / _init_linkedin_sheet has
\* finished, by return or by raising, the lookup worksheet, when it exists, is
\* either the worksheet that existed before, unmodified, or a new one holding
\* the header row and the seed 'MIT IDE' row; no empty worksheet is left.
C30_InitLeavesNoEmptyLookupSheet ==
    (call.op = "init" /\ sheets[call.name].exists) =>
        \/ call.before[call.name].exists /\ sheets[call.name] = call.before[call.name]
        \/ /\ ~call.before[call.name].exists
           /\ sheets[call.name].cells =
                  WsUpdateA1(<<>>, IF call.name = "LinkedIn" THEN LinkedInHeaders
                                   ELSE YouTubeHeaders)


\* The tables of the four fetchers whose save tests for an empty result
GuardedTables ==
    {"YouTube Yearly Stats", "LinkedIn Yearly Stats", "Scholar Yearly Stats",
     "Medium Stats"}

\* C29: save_to_google_sheets of the YouTube, LinkedIn, Scholar and Medium
\* fetchers, called with an empty result, leaves the spreadsheet as it was: the
\* target table is neither created nor cleared nor written, whatever request
\* would have failed, and the call returns without raising.
C29_EmptyResultLeavesSheetsUnchanged ==
    (call.op = "save" /\ call.name \in GuardedTables /\ IsEmptyFrame(call.data)) =>
        /\ sheets = call.before
        /\ ~call.raised
        /\ call.sink = "not_called"
        /\ ~call.csv

\* A save with an empty result on a table that holds rows of an earlier save
C29_Witness ==
    /\ call.op = "save"
    /\ call.name \in GuardedTables
    /\ IsEmptyFrame(call.data)
    /\ call.before[call.name].exists
    /\ Len(call.before[call.name].cells) > 1
    /\ sheets[call.name] = call.before[call.name]


\* C28: construction is all-or-nothing.  When DataUpdater() raised, whichever
\* constructor or lookup failed, the process has ended: update_all_data has
\* not run and does not run afterwards, schedule_updates is not entered, and
\* every metric output table is as it was when the process started.
C28_FailedConstructionRunsNothing ==
    [][boot'.raised =>
          /\ ~run'.ran
          /\ sched'.startup = 0
          /\ ~sched'.entered
          /\ sched'.pc = "exited"
          /\ \A t \in OutputTables : sheets'[t] = sheets[t]]_vars

\* The constructor raised after fetchers had been constructed and requests
\* sent, on a spreadsheet that holds output of an earlier run
C28_Witness ==
    /\ boot.done /\ boot.raised
    /\ boot.constructed # {}
    /\ boot.requests
    /\ sched.pc = "exited"
    /\ sheets["LinkedIn Yearly Stats"] = Worksheet(OldCells)
    /\ ~run.ran


(***************************************************************************)
(* Pagination and retry, request by request.  `remote` is the listing the  *)
(* platform serves as pages (a page carries has_more_items / a next token  *)
(* while a further page exists; the citation index serves an empty page    *)
(* past the last one), `fetched` is the fetch in progress.                 *)
(***************************************************************************)

\* sys.getrecursionlimit(), scaled down: the depth at which a recursive
\* _make_request raises RecursionError
MaxDepth == 3

\* self.min_request_interval of MediumAPIClient
MinRequestInterval == 2

\* The start boundary of the publications kept by _parse_publications
ScholarFirstYear == 2020

\* The Retry-After header of a 429 response: absent, a number of seconds, or
\* an HTTP date
RetryAfters == {"absent", "1", "5", "date"}

Seconds(header) == IF header = "1" THEN 1 ELSE 5

\* The fetch in progress: the pages read, the items collected, the requests
\* sent for the page being fetched, the last response and the last sleep
Paging(src) ==
    [src |-> src, pc |-> "paging", read |-> 0, items |-> <<>>, tries |-> 0,
     status |-> "none", header |-> "absent", slept |-> 0, failed |-> FALSE,
     asked |-> 0]

\* The page number k as the platform serves it
PageAt(rm, k) == IF k <= Len(rm.pages) THEN rm.pages[k] ELSE <<>>

\* has_more_items / nextPageToken / next of page k
HasMore(rm, k) == k < Len(rm.pages)

\* A request that was answered with `status`
Asked(st, k, status, header) ==
    [st EXCEPT !.tries = @ + 1, !.status = status, !.header = header, !.asked = k]

\* The page was read: its items are kept, and paging ends when `stop` holds
ReadPage(st, items, stop) ==
    [st EXCEPT !.read = @ + 1, !.items = @ \o items, !.tries = 0,
               !.pc = IF stop THEN "done" ELSE "paging"]

\* EventbriteFetcher.get_events: one turn of `while True`; a response that is
\* not 200 raises; stop when has_more_items is false
eventbrite_page(rm, st, status) ==
    LET k == st.read + 1
        got == Asked(st, k, status, "absent")
    IN  IF status # "200" THEN [got EXCEPT !.pc = "raised", !.failed = TRUE]
        ELSE ReadPage(got, PageAt(rm, k), ~HasMore(rm, k))

\* get_video_stats that also stops at a page without items
youtube_page_stop_at_empty(rm, st, status) ==
    LET k == st.read + 1
        got == Asked(st, k, status, "absent")
        total_videos_fetched == Len(st.items) + Len(PageAt(rm, k))
    IN  IF status # "200" THEN [got EXCEPT !.pc = "raised", !.failed = TRUE]
        ELSE ReadPage(got, PageAt(rm, k),
                      \/ ~HasMore(rm, k)
                      \/ total_videos_fetched >= rm.total
                      \/ Len(PageAt(rm, k)) = 0)

\* YouTubeFetcher.get_video_stats: one turn of `while True`; execute() raises
\* on an error; stop when there is no nextPageToken or total_videos_fetched
\* has reached the channel's videoCount
youtube_page(rm, st, status) ==
    LET k == st.read + 1
        got == Asked(st, k, status, "absent")
        total_videos_fetched == Len(st.items) + Len(PageAt(rm, k))
    IN  IF status # "200" THEN [got EXCEPT !.pc = "raised", !.failed = TRUE]
        ELSE ReadPage(got, PageAt(rm, k),
                      ~HasMore(rm, k) \/ total_videos_fetched >= rm.total)

\* ScholarFetcher.get_publications: one turn of `while has_more`; the
\* publications of the page from 2020 on are kept; a page without any, or a
\* status other than 200, ends the paging (has_more = False)
scholar_page(rm, st, status) ==
    LET k == st.read + 1
        got == Asked(st, k, status, "absent")
        publications == SelectSeq(PageAt(rm, k), LAMBDA y : y >= ScholarFirstYear)
    IN  IF status # "200" THEN [got EXCEPT !.pc = "done", !.failed = TRUE]
        ELSE ReadPage(got, publications, Len(publications) = 0)

\* _make_request that sleeps min_request_interval whatever the header says
retry_after_fixed(header) == MinRequestInterval

\* int(response.headers.get('Retry-After', self.min_request_interval))
retry_after(header) ==
    IF header = "absent" THEN MinRequestInterval ELSE Seconds(header)

\* MediumAPIClient.get_user_articles through _make_request, one HTTP request:
\* 429 -> sleep(retry_after) and the same request again (a recursive call,
\* RecursionError at the recursion limit; int() of a header that is no number
\* raises ValueError); another error status raises; 200 -> the articles are
\* kept and a next token leads to the next page
medium_request(rm, st, status, header) ==
    LET k == st.read + 1
        got == Asked(st, k, status, header)
    IN  IF status = "429"
        THEN IF got.tries >= MaxDepth \/ header = "date"
             THEN [got EXCEPT !.pc = "raised", !.failed = TRUE]
             ELSE [got EXCEPT !.slept = retry_after(header)]
        ELSE IF status # "200" THEN [got EXCEPT !.pc = "raised", !.failed = TRUE]
        ELSE ReadPage(got, PageAt(rm, k), ~HasMore(rm, k))

\* What a page may hold: the years of its items
PageSet == {<<>>, <<2021>>, <<2018>>, <<2021, 2018>>}

Flatten(pages) ==
    LET RECURSIVE F(_)
        F(k) == IF k > Len(pages) THEN <<>> ELSE pages[k] \o F(k + 1)
    IN  F(1)

\* The listings a platform may serve; total is the channel's videoCount.  A
\* token-driven platform may serve a page without items that still carries a
\* token; the citation index pages by offset, so only the page past its last
\* entry is empty.
PagedRemotes ==
    {rm \in {[src |-> s, pages |-> p, total |-> Len(Flatten(p)) + more] :
                s \in {"Eventbrite", "YouTube", "Scholar", "Medium"},
                p \in SeqUpTo(PageSet, MaxPages) \ {<<>>},
                more \in {0, 1}} :
        rm.src = "Scholar" => \A k \in 1..Len(rm.pages) : Len(rm.pages[k]) > 0}

InitPages ==
    /\ remote \in PagedRemotes
    /\ fetched = Paging(remote.src)
    /\ sheets = NoSheets
    /\ call = NoCall
    /\ lookup = <<>>
    /\ platform = NoPlatform
    /\ resolved = NotResolved
    /\ run = NoRun
    /\ saves = <<>>
    /\ env = NoEnv
    /\ boot = NotBooted
    /\ sched = NoSched

PagesUnchanged == UNCHANGED <<remote, sinkVars, resolveVars, runVars, mainVars>>

EventbritePage ==
    /\ fetched.src = "Eventbrite" /\ fetched.pc = "paging"
    /\ \E status \in {"200", "500"} :
           fetched' = eventbrite_page(remote, fetched, status)
    /\ PagesUnchanged

YouTubePage ==
    /\ fetched.src = "YouTube" /\ fetched.pc = "paging"
    /\ \E status \in {"200", "500"} :
           fetched' = youtube_page(remote, fetched, status)
    /\ PagesUnchanged

ScholarPageRequest ==
    /\ fetched.src = "Scholar" /\ fetched.pc = "paging"
    /\ \E status \in {"200", "429"} :
           fetched' = scholar_page(remote, fetched, status)
    /\ PagesUnchanged

MediumRequest ==
    /\ fetched.src = "Medium" /\ fetched.pc = "paging"
    /\ \E status \in {"200", "429", "500"}, header \in RetryAfters :
           /\ status # "429" => header = "absent"
           /\ fetched' = medium_request(remote, fetched, status, header)
    /\ PagesUnchanged

NextPages ==
    \/ EventbritePage
    \/ YouTubePage
    \/ ScholarPageRequest
    \/ MediumRequest

SpecPages == InitPages /\ [][NextPages]_vars

\* Every request that can be sent is sent in the end: the process runs on
SpecPagesLive == SpecPages /\ WF_vars(NextPages)


\* The items of the listing dated on or after the start boundary: the
\* publications from 2020 on; the other platforms are asked for such items only
Qualifying(rm) ==
    IF rm.src = "Scholar"
    THEN SelectSeq(Flatten(rm.pages), LAMBDA y : y >= ScholarFirstYear)
    ELSE Flatten(rm.pages)

\* C21 (as stated): a fetch whose requests all succeeded retrieves every item
\* dated on or after the start boundary that the platform lists on any of its
\* pages: paging never stops while a further page holds such an item.
C21_AllPagesRetrieved ==
    (fetched.pc = "done" /\ ~fetched.failed) => fetched.items = Qualifying(remote)

\* The number of items on the first k pages
CountUpTo(rm, k) == Len(Flatten(SubSeq(rm.pages, 1, k)))

\* C22 (as stated): every paging loop terminates once the platform signals
\* the end by any of has_more = false, no further token, or a page with zero
\* new items; in particular no page is requested after a page with zero new
\* items, even when that page supplied a next token.
C22_StopsAtAnySignal ==
    /\ [](\A k \in 1..(fetched.read - 1) : Len(PageAt(remote, k)) > 0)
    /\ <>(fetched.pc # "paging")

\* The end signal of each fetcher at page k: has_more_items false
\* (Eventbrite), no nextPageToken or the channel's videoCount reached
\* (YouTube), no next token (Medium), a page without new publications (Scholar)
SignalAt(rm, k) ==
    CASE rm.src = "Scholar" ->
             Len(SelectSeq(PageAt(rm, k), LAMBDA y : y >= ScholarFirstYear)) = 0
      [] rm.src = "YouTube" -> ~HasMore(rm, k) \/ CountUpTo(rm, k) >= rm.total
      [] OTHER -> ~HasMore(rm, k)

\* C22 (amended): every paging loop terminates, and it stops exactly at the
\* first page that carries the fetcher's own end signal: has_more = false for
\* Eventbrite, no further token (or the video count reached) for YouTube, no
\* next token for Medium, a page with zero new items for Scholar.  A page with
\* zero items that supplies a next token does not end the paging of the
\* token-driven fetchers.
C22_StopsAtOwnSignal ==
    /\ [](\A k \in 1..fetched.read :
              SignalAt(remote, k) <=>
                  (k = fetched.read /\ fetched.pc = "done" /\ ~fetched.failed))
    /\ <>(fetched.pc # "paging")

\* The video listing was read past an empty page that supplied a token
C22_Witness ==
    /\ fetched.src = "YouTube"
    /\ fetched.pc = "done" /\ ~fetched.failed
    /\ fetched.read = 2
    /\ Len(remote.pages[1]) = 0
    /\ Len(fetched.items) > 0

\* C23: in _make_request a 429 response is followed by a sleep of the
\* Retry-After seconds (min_request_interval when the header is absent) and
\* by the same request again; any other failure raises without a retry; no
\* other fetcher sleeps or sends a request again after a failure.  (A 429
\* whose Retry-After is not a number of seconds, or that arrives at the
\* recursion limit, raises.)
C23_RetryOnlyOnRateLimit ==
    /\ (fetched.src = "Medium" /\ fetched.status = "429"
          /\ fetched.header # "date" /\ fetched.tries < MaxDepth) =>
           /\ fetched.pc = "paging"
           /\ fetched.slept = (IF fetched.header = "absent" THEN MinRequestInterval
                                ELSE Seconds(fetched.header))
           /\ fetched.asked = fetched.read + 1
    /\ (fetched.src = "Medium" /\ fetched.status \notin {"none", "200", "429"}) =>
           /\ fetched.pc = "raised"
           /\ fetched.asked = fetched.read + 1
    /\ fetched.src # "Medium" =>
           /\ fetched.tries <= 1
           /\ fetched.slept = 0
           /\ fetched.status \notin {"none", "200"} => fetched.pc # "paging"

\* A 429 with Retry-After: 5 was answered by a sleep of 5 seconds, and the
\* request for the same page is due again
C23_Witness ==
    /\ fetched.src = "Medium"
    /\ fetched.status = "429" /\ fetched.header = "5"
    /\ fetched.slept = 5
    /\ fetched.tries = 2
    /\ fetched.pc = "paging"

\* C24 (as stated): one call of _make_request sends at most two HTTP requests
\* (one retry), also when the platform answers 429 every time.
C24_AtMostTwoRequests ==
    fetched.src = "Medium" => fetched.tries <= 2


(***************************************************************************)
(* The process step by step: the main thread runs update_all_data at       *)
(* startup and then polls schedule.run_pending(); the 02:00 job falls due  *)
(* as time passes, whatever the thread is doing.  `run` is the thread's    *)
(* position with the sources and table writes in progress, `sched` the     *)
(* date and whether the job is due.                                        *)
(***************************************************************************)

\* The thread's position, the sources that are active, the tables with a
\* clear or write under way and the update_all_data calls under way
Thread(pc, active, writing, running) ==
    [pc |-> pc, active |-> active, writing |-> writing, running |-> running]

\* A scheduler that runs the job in a thread of its own, whatever the main
\* thread is doing
AtRunPendingInThread(st) == st.pc # "exited"

\* while True: schedule.run_pending(); time.sleep(60) -- the job is started
\* by the main thread, between two sleeps of the polling loop
AtRunPending(st) == st.pc = "loop"

\* The position after update_all_data has returned
AfterRun(st) == Thread("loop", {}, {}, st.running - 1)

\* The position after update_all_data has raised: __main__ logs and re-raises
AfterRaise(st) == Thread("exited", {}, {}, st.running - 1)

InitSteps ==
    /\ run = Thread("main", {}, {}, 0)
    /\ sched \in {[due |-> FALSE, month |-> m, day |-> d] :
                     m \in 1..12, d \in 1..MaxDay}
    /\ sheets \in {sh \in RunSheets : sh["Budget Data"].exists}
    /\ remote \in {li \in LinkedInRemotes :
                      li.org = "200" /\ li.hasCount /\ li.followerCount = 5}
    /\ env = NoEnv
    /\ boot = Booted(FALSE, {}, Sources, TRUE)
    /\ call = NoCall
    /\ lookup = <<>>
    /\ platform = NoPlatform
    /\ resolved = NotResolved
    /\ fetched = NotFetched
    /\ saves = <<>>

StepsUnchanged == UNCHANGED <<call, resolveVars, fetchVars, saves, env, boot>>

\* __main__: updater.update_all_data() begins with the budget step
StartupBegins ==
    /\ run.pc = "main"
    /\ run' = Thread("budget", run.active \cup {"Budget"}, run.writing, run.running + 1)
    /\ UNCHANGED <<sheets, sched>>
    /\ StepsUnchanged

\* Time passes to the next 02:00: the job is due
ClockDue ==
    /\ run.pc # "exited"
    /\ LET next == NextDate(sched.month, sched.day)
       IN  sched' = [due |-> TRUE, month |-> next.month, day |-> next.day]
    /\ UNCHANGED <<sheets, run>>
    /\ StepsUnchanged

\* schedule.run_pending() runs the due job: _check_and_update()
RunPending ==
    /\ AtRunPending(run)
    /\ sched.due
    /\ sched' = [sched EXCEPT !.due = FALSE]
    /\ run' = IF sched.month \in UpdateMonths
              THEN Thread("budget", run.active \cup {"Budget"}, run.writing,
                          run.running + 1)
              ELSE run
    /\ UNCHANGED sheets
    /\ StepsUnchanged

\* budget_processor.load_from_google_sheets(...) ends; then the LinkedIn step
\* begins, or the exception leaves update_all_data
BudgetStepEnds ==
    /\ run.pc = "budget"
    /\ \E bfault \in BudgetFaults :
           run' = IF load_from_google_sheets(sheets, bfault).raised
                  THEN AfterRaise(run)
                  ELSE Thread("linkedin", (run.active \ {"Budget"}) \cup {"LinkedIn"},
                              run.writing, run.running)
    /\ UNCHANGED <<sheets, sched>>
    /\ StepsUnchanged

\* linkedin_fetcher.get_company_stats(...) ends; save_to_google_sheets gets or
\* creates the worksheet and update_sheet is about to clear it; an exception
\* is logged by the LinkedIn step's own handler
LinkedInFetchEnds ==
    /\ run.pc = "linkedin"
    /\ \E fault \in {"none", "pre_open"} :
        LET company_stats == get_company_stats(remote)
            pre == GetOrCreate(sheets, "LinkedIn Yearly Stats", fault, TRUE)
        IN  IF company_stats.raised \/ pre.raised
            THEN /\ run' = AfterRun(run)
                 /\ sheets' = sheets
            ELSE /\ run' = Thread("clear", run.active,
                                  run.writing \cup {"LinkedIn Yearly Stats"},
                                  run.running)
                 /\ sheets' = pre.sheets
    /\ UNCHANGED sched
    /\ StepsUnchanged

\* worksheet.clear()
ClearEnds ==
    /\ run.pc = "clear"
    /\ \E fault \in {"none", "clear"} :
        IF fault = "clear"
        THEN /\ run' = AfterRun(run)
             /\ sheets' = sheets
        ELSE /\ run' = [run EXCEPT !.pc = "write"]
             /\ sheets' = [sheets EXCEPT !["LinkedIn Yearly Stats"].cells = WsClear(@)]
    /\ UNCHANGED sched
    /\ StepsUnchanged

\* worksheet.update('A1', data); update_all_data returns
WriteEnds ==
    /\ run.pc = "write"
    /\ \E fault \in {"none", "update"} :
        /\ run' = AfterRun(run)
        /\ sheets' = IF fault = "update" THEN sheets
                     ELSE [sheets EXCEPT !["LinkedIn Yearly Stats"].cells =
                              WsUpdateA1(@, ToListOfLists(get_company_stats(remote).frame))]
    /\ UNCHANGED sched
    /\ StepsUnchanged

NextSteps ==
    \/ StartupBegins
    \/ ClockDue
    \/ RunPending
    \/ BudgetStepEnds
    \/ LinkedInFetchEnds
    \/ ClearEnds
    \/ WriteEnds

SpecSteps == InitSteps /\ [][NextSteps]_vars

\* C26: sources are processed strictly one after the other with one writer:
\* at every point at most one update_all_data call is under way, at most one
\* source is active in it and at most one table is being cleared or written,
\* by the active source; a job that falls due during the startup run or
\* during a scheduled run starts only after that run has ended.
C26_OneSourceOneWriter ==
    /\ run.running <= 1
    /\ Cardinality(run.active) <= 1
    /\ Cardinality(run.writing) <= 1
    /\ run.active # {} => run.running = 1
    /\ run.writing # {} => run.active = {"LinkedIn"}
    /\ run.pc \in {"main", "loop", "exited"} => (run.active = {} /\ run.running = 0)

\* The job fell due while the LinkedIn table was being written
C26_Witness ==
    /\ run.pc = "write"
    /\ sched.due
    /\ run.writing = {"LinkedIn Yearly Stats"}
    /\ run.active = {"LinkedIn"}

====
